---- MODULE Spec2Model ----
(***************************************************************************)
(* State-machine model of the embedded messaging backend:                  *)
(*   - the Durable Streams message store and its HTTP surface              *)
(*     (src-tauri/src/streams/storage.rs, streams/server.rs)               *)
(*   - the tus resumable upload store and its HTTP surface                 *)
(*     (src-tauri/src/tus/storage.rs, tus/server.rs)                       *)
(* Every operation is translated from the Rust source; the properties at   *)
(* the end of each part are the claims C1.. of the specification.          *)
(***************************************************************************)
EXTENDS Integers, Sequences, FiniteSets, TLC

(***************************************************************************)
(* Bounds of the model                                                     *)
(***************************************************************************)
\* cap on the in-memory offset counter of the message store
MaxOffset == 3
\* cap on the logical clock used for message timestamps
MaxClock == 2

\* an absent Option / an absent HTTP header
None == "none"

(***************************************************************************)
(* PART I  -  Durable Streams store (streams/storage.rs)                   *)
(***************************************************************************)
VARIABLES
    current_offset,   \* MessageStorage.current_offset (in memory)
    total_bytes,      \* MessageStorage.total_bytes (in memory)
    etag,             \* MessageStorage.etag (in memory)
    messages,         \* rows of table messages
    streams,          \* rows of table streams, keyed by path
    now,              \* logical clock (chrono::Utc::now)
    sresp,            \* the last completed store / HTTP operation and its answer
    lastOk,           \* offset returned by the latest successful append (0: none yet)
    seenEtag,         \* per stream path: the ETag returned by the latest GET 200
    appendedSince     \* per stream path: an append succeeded since that GET

svars == <<current_offset, total_bytes, etag, messages, streams, now, sresp,
           lastOk, seenEtag, appendedSince>>

\* application-supplied message ids (StreamMessage.id)
MsgIds == {"m1", "m2"}
\* serialized JSON payloads (payload.to_string())
Payloads == {"7", "42"}
\* user ids
Users == {"a", "b"}
\* stream paths
Paths == {"foo"}
\* stream modes
Modes == {"json", "bytes"}
\* config.retention_secs, in clock ticks
RetentionSecs == 1

\* format!("\"{}:{}\"", offset, bytes)
GenerateEtag(offset, bytes) ==
    "\"" \o ToString(offset) \o ":" \o ToString(bytes) \o "\""

\* mutant of CheckEtag: If-None-Match is examined before If-Match
CheckEtagNoneMatchFirst(if_match, if_none_match, current_etag) ==
    IF if_none_match # None /\ (if_none_match = "*" \/ if_none_match = current_etag)
    THEN "NotModified"
    ELSE IF if_match # None /\ if_match # "*" /\ if_match # current_etag
         THEN "PreconditionFailed"
         ELSE "Proceed"

\* MessageStorage::check_etag
CheckEtag(if_match, if_none_match, current_etag) ==
    IF if_match # None /\ if_match # "*" /\ if_match # current_etag
    THEN "PreconditionFailed"
    ELSE IF if_none_match # None /\ (if_none_match = "*" \/ if_none_match = current_etag)
         THEN "NotModified"
         ELSE "Proceed"

\* SELECT COALESCE(MAX(offset), 0) FROM messages
MaxRowOffset(rows) ==
    IF rows = {} THEN 0
    ELSE CHOOSE o \in {r.offset : r \in rows} : \A r \in rows : r.offset <= o

RECURSIVE SumByteSize(_)
\* SELECT COALESCE(SUM(byte_size), 0) FROM messages
SumByteSize(rows) ==
    IF rows = {} THEN 0
    ELSE LET r == CHOOSE r \in rows : TRUE
         IN  r.byte_size + SumByteSize(rows \ {r})

RECURSIVE SortByOffset(_)
\* ORDER BY offset ASC
SortByOffset(rows) ==
    IF rows = {} THEN <<>>
    ELSE LET r == CHOOSE r \in rows : \A q \in rows : r.offset <= q.offset
         IN  <<r>> \o SortByOffset(rows \ {r})

\* LIMIT n
Take(seq, n) == SubSeq(seq, 1, IF Len(seq) < n THEN Len(seq) ELSE n)

\* the smaller of two numbers
Min(a, b) == IF a < b THEN a ELSE b

\* MessageStorage::get_from_offset
GetFromOffset(offset, limit) ==
    Take(SortByOffset({r \in messages : r.offset > offset}), limit)

\* get_range with the requested end compared as it was sent
GetRangeEndAsSent(start, end, limit) ==
    LET current    == current_offset
        end_offset == IF end = <<>> THEN current ELSE end[1]
        msgs       == GetFromOffset(start, limit)
        actual_end == IF Len(msgs) = 0 THEN start ELSE msgs[Len(msgs)].offset
    IN  [messages |-> msgs, start_offset |-> start, end_offset |-> actual_end,
         total_offset |-> current, has_more |-> actual_end < end_offset]

\* MessageStorage::get_range; range.end is <<>> (None) or <<n>> (Some(n))
GetRange(start, end, limit) ==
    LET current    == current_offset
        requested  == IF end = <<>> THEN current ELSE end[1]
        end_offset == IF requested < current THEN requested ELSE current
        msgs       == GetFromOffset(start, limit)
        actual_end == IF Len(msgs) = 0 THEN start ELSE msgs[Len(msgs)].offset
    IN  [messages |-> msgs, start_offset |-> start, end_offset |-> actual_end,
         total_offset |-> current, has_more |-> actual_end < end_offset]

\* the answer of one operation; fields an operation does not use stay None,
\* body is the set holding the response body (empty: no body)
Resp(op, status, offset, tag, if_match, if_none_match, body) ==
    [op |-> op, status |-> status, offset |-> offset, etag |-> tag,
     if_match |-> if_match, if_none_match |-> if_none_match, body |-> body]

NoResp == Resp(None, 0, 0, None, None, None, {})

\* the INSERT of append fails: id is the PRIMARY KEY, offset is UNIQUE
InsertFails(id, offset) ==
    \E r \in messages : r.id = id \/ r.offset = offset

\* MessageStorage::new on a fresh data directory
InitStream ==
    /\ current_offset = 0
    /\ total_bytes = 0
    /\ etag = GenerateEtag(0, 0)
    /\ messages = {}
    /\ streams = [p \in {} |-> 0]
    /\ now = 0
    /\ sresp = NoResp
    /\ lastOk = 0
    /\ seenEtag = [p \in Paths |-> None]
    /\ appendedSince = [p \in Paths |-> FALSE]

\* chrono::Utc::now() advances
Tick ==
    /\ now < MaxClock
    /\ now' = now + 1
    /\ UNCHANGED <<current_offset, total_bytes, etag, messages, streams, sresp,
                   lastOk, seenEtag, appendedSince>>

\* MessageStorage::append
StoreAppend(id, payload, sender, recipient) ==
    LET offset    == current_offset + 1
        byte_size == Len(payload)
        row       == [id |-> id, offset |-> offset, byte_size |-> byte_size,
                      sender_id |-> sender, recipient_id |-> recipient,
                      timestamp |-> now]
    IN  /\ current_offset < MaxOffset
        /\ current_offset' = offset
        /\ IF InsertFails(id, offset)
           THEN /\ sresp' = Resp("append", 500, 0, None, None, None, {})
                /\ UNCHANGED <<total_bytes, etag, messages, lastOk, appendedSince>>
           ELSE /\ messages' = messages \cup {row}
                /\ total_bytes' = total_bytes + byte_size
                /\ etag' = GenerateEtag(offset, total_bytes + byte_size)
                /\ sresp' = Resp("append", 200, offset, None, None, None, {})
                /\ lastOk' = offset
                /\ appendedSince' = [p \in Paths |-> TRUE]
        /\ UNCHANGED <<streams, now, seenEtag>>

\* a subtraction that leaves the value as it is
SaturatingSubKeep(total, size) == total

\* u64::saturating_sub
SaturatingSub(total, size) == IF total < size THEN 0 ELSE total - size

\* MessageStorage::delete_message
DeleteMessage(id) ==
    /\ IF \E r \in messages : r.id = id
       THEN LET r == CHOOSE r \in messages : r.id = id
                nb == SaturatingSub(total_bytes, r.byte_size)
            IN  /\ messages' = messages \ {r}
                /\ total_bytes' = nb
                /\ etag' = GenerateEtag(current_offset, nb)
                /\ sresp' = Resp("delete_message", 200, 0, None, None, None,
                                 {[id |-> id, deleted |-> TRUE]})
       ELSE /\ sresp' = Resp("delete_message", 200, 0, None, None, None,
                             {[id |-> id, deleted |-> FALSE]})
            /\ UNCHANGED <<messages, total_bytes, etag>>
    /\ UNCHANGED <<current_offset, streams, now, lastOk, seenEtag, appendedSince>>

\* MessageStorage::cleanup_old_messages
CleanupOldMessages ==
    LET old == {r \in messages : r.timestamp < now - RetentionSecs}
    IN  /\ messages' = messages \ old
        /\ sresp' = Resp("cleanup_old_messages", 200, 0, None, None, None,
                         {Cardinality(old)})
        /\ UNCHANGED <<current_offset, total_bytes, etag, streams, now, lastOk,
                       seenEtag, appendedSince>>

\* handle_get_messages_range (GET /messages)
HandleGetMessagesRange(if_match, if_none_match, start, end, limit) ==
    LET check == CheckEtag(if_match, if_none_match, etag)
    IN  /\ sresp' =
             IF check = "NotModified"
             THEN Resp("get_messages", 304, 0, None, if_match, if_none_match, {})
             ELSE IF check = "PreconditionFailed"
             THEN Resp("get_messages", 412, 0, None, if_match, if_none_match, {})
             ELSE LET data == GetRange(start, end, limit)
                  IN  Resp("get_messages", IF data.has_more THEN 206 ELSE 200,
                           0, etag, if_match, if_none_match, {data})
        /\ UNCHANGED <<current_offset, total_bytes, etag, messages, streams, now,
                       lastOk, seenEtag, appendedSince>>
\* mutant of CreateStreamFails: the INSERT replaces an existing row
CreateStreamReplaces(path) == FALSE

\* MessageStorage::create_stream: the INSERT fails when the path exists
CreateStreamFails(path) == path \in DOMAIN streams

\* the row INSERTed by MessageStorage::create_stream
NewStreamRow(mode) ==
    [mode |-> mode, current_offset |-> 0, total_bytes |-> 0, created_at |-> now,
     updated_at |-> now, etag |-> GenerateEtag(0, 0)]

\* handle_create_stream (PUT /streams/{path})
HandleCreateStream(path, if_none_match, mode) ==
    /\ IF if_none_match = "*" /\ path \in DOMAIN streams
       THEN /\ sresp' = Resp("put_stream", 412, 0, None, None, if_none_match, {path})
            /\ UNCHANGED streams
       ELSE IF CreateStreamFails(path)
       THEN /\ sresp' = Resp("put_stream", 409, 0, None, None, if_none_match, {path})
            /\ UNCHANGED streams
       ELSE /\ streams' = [p \in DOMAIN streams \cup {path} |->
                              IF p = path THEN NewStreamRow(mode) ELSE streams[p]]
            /\ sresp' = Resp("put_stream", 201, 0, GenerateEtag(0, 0), None,
                             if_none_match, {path})
    /\ seenEtag' = [seenEtag EXCEPT ![path] = None]
    /\ UNCHANGED <<current_offset, total_bytes, etag, messages, now, lastOk,
                   appendedSince>>

\* handle_get_stream (GET /streams/{path})
HandleGetStream(path, if_none_match) ==
    /\ IF path \notin DOMAIN streams
       THEN /\ sresp' = Resp("get_stream", 404, 0, None, None, if_none_match, {path})
            /\ UNCHANGED <<seenEtag, appendedSince>>
       ELSE IF if_none_match # None /\ if_none_match = streams[path].etag
       THEN /\ sresp' = Resp("get_stream", 304, 0, None, None, if_none_match, {path})
            /\ UNCHANGED <<seenEtag, appendedSince>>
       ELSE /\ sresp' = Resp("get_stream", 200, 0, streams[path].etag, None,
                             if_none_match, {path})
            /\ seenEtag' = [seenEtag EXCEPT ![path] = streams[path].etag]
            /\ appendedSince' = [appendedSince EXCEPT ![path] = FALSE]
    /\ UNCHANGED <<current_offset, total_bytes, etag, messages, streams, now, lastOk>>

\* handle_delete_stream (DELETE /streams/{path})
HandleDeleteStream(path, if_match) ==
    /\ IF /\ if_match # None
          /\ path \in DOMAIN streams
          /\ if_match # "*"
          /\ if_match # streams[path].etag
       THEN /\ sresp' = Resp("delete_stream", 200, 0, None, if_match, None, {FALSE})
            /\ UNCHANGED streams
       ELSE /\ streams' = [p \in DOMAIN streams \ {path} |-> streams[p]]
            /\ sresp' = Resp("delete_stream", 200, 0, None, if_match, None,
                             {path \in DOMAIN streams})
    /\ seenEtag' = [seenEtag EXCEPT ![path] = None]
    /\ UNCHANGED <<current_offset, total_bytes, etag, messages, now, lastOk,
                   appendedSince>>

(***************************************************************************)
(* PART II  -  tus upload store (tus/storage.rs, tus/server.rs)            *)
(***************************************************************************)
VARIABLES
    uploads,     \* FileStorage.uploads: id -> TusUpload (in memory)
    partial,     \* files <base>/partial/<id>.part: id -> bytes
    sidecar,     \* files <base>/partial/<id>.json: id -> TusUpload as saved
    complete,    \* files <base>/complete/<name>: name -> bytes
    created,     \* upload ids handed out so far (uuid v4: never reused)
    req,         \* per request task: where it is in its handler, and its locals
    tresp,       \* the last answer of the upload server
    epoch        \* number of process restarts so far

tvars == <<uploads, partial, sidecar, complete, created, req, tresp, epoch>>

\* bound on the length of one request body
MaxChunk == 2
\* bound on Upload-Offset plus body length of the requests sent
MaxUploadOffset == 3
\* bound on the number of process restarts
MaxRestarts == 1
\* TusConfig.max_size, scaled
TusMaxSize == 2

\* upload ids (uuid v4 strings)
UploadIds == {"u1"}
\* concurrently running request tasks
Workers == {1, 2}

\* values of the metadata key filename: absent, or a name as a sequence of
\* characters; "@" stands for any character the sanitizer removes
FileNames == {<<>>, <<<<"a">>>>, <<<<"@">>>>}

\* the body of a request of task w: n bytes, tagged with the task
Bytes(w, n) == [i \in 1..n |-> w]

\* "sha256 " + base64(SHA-256(data)); the digest is collision free
ChecksumOf(data) == <<"sha256 ", data>>

\* values of the Upload-Checksum header for a body: absent, the checksum of
\* the body, the checksum of other bytes
ChecksumHeaders(data) ==
    {<<>>, <<ChecksumOf(data)>>, <<ChecksumOf(data \o <<0>>)>>}

\* the Upload-Checksum header, as the claims speak of it
ChecksumKind(csum, data) ==
    IF csum = <<>> THEN "none"
    ELSE IF csum[1] = ChecksumOf(data) THEN "valid" ELSE "invalid"

\* TusUpload::new
NewUpload(length, filename) ==
    [length |-> length, offset |-> 0, filename |-> filename,
     is_complete |-> FALSE, final_path |-> <<>>]

RECURSIVE StripTrailing(_)
\* Path::components: trailing separators and trailing "." components are dropped
StripTrailing(s) ==
    IF Len(s) > 0 /\ s[Len(s)] = "/" THEN StripTrailing(SubSeq(s, 1, Len(s) - 1))
    ELSE IF Len(s) > 1 /\ s[Len(s)] = "." /\ s[Len(s) - 1] = "/"
         THEN StripTrailing(SubSeq(s, 1, Len(s) - 1))
         ELSE s

RECURSIVE LastComponent(_)
\* the characters after the last separator
LastComponent(s) ==
    IF s = <<>> \/ s[Len(s)] = "/" THEN <<>>
    ELSE LastComponent(SubSeq(s, 1, Len(s) - 1)) \o <<s[Len(s)]>>

\* Path::file_name(), "unknown" when there is none
FileNameOrUnknown(s) ==
    LET c == LastComponent(StripTrailing(s))
    IN  IF c \in {<<>>, <<".">>, <<".", ".">>} THEN <<"unknown">> ELSE c

\* c.is_alphanumeric() || c == '.' || c == '-' || c == '_' || c == ' '
AllowedChar(c) == c \notin {"/", "@"}

RECURSIVE Trim(_)
\* str::trim
Trim(s) ==
    IF Len(s) > 0 /\ s[1] = " " THEN Trim(Tail(s))
    ELSE IF Len(s) > 0 /\ s[Len(s)] = " " THEN Trim(SubSeq(s, 1, Len(s) - 1))
         ELSE s

\* sanitize_filename
SanitizeFilename(filename) ==
    Trim(SelectSeq(FileNameOrUnknown(filename), AllowedChar))

\* finalize_upload: the name of the final file of upload id
SafeFilename(id, upload) ==
    SanitizeFilename(IF upload.filename = <<>> THEN <<id, ".bin">>
                     ELSE upload.filename[1])

\* fs::rename(partial, complete/<name>) fails when the partial file is gone or
\* the target is a directory (complete/ itself, complete/. or complete/..)
RenameFails(id, name) ==
    \/ id \notin DOMAIN partial
    \/ name \in {<<>>, <<".">>, <<".", ".">>}

\* file.seek(Start(offset)); file.write_all(data): the bytes of the file after
\* the write (a seek past the end leaves a hole of zero bytes)
WriteAt(bytes, offset, data) ==
    LET end == offset + Len(data)
        n   == IF Len(bytes) > end THEN Len(bytes) ELSE end
    IN  [i \in 1..n |->
            IF i > offset /\ i <= end THEN data[i - offset]
            ELSE IF i <= Len(bytes) THEN bytes[i] ELSE 0]

\* a function with one key added or replaced
Put(f, k, v) == [x \in DOMAIN f \cup {k} |-> IF x = k THEN v ELSE f[x]]

\* a function with one key removed
Drop(f, k) == [x \in DOMAIN f \ {k} |-> f[x]]

\* a task that handles no request
Idle ==
    [pc |-> "idle", op |-> None, id |-> None, offset |-> 0, data |-> <<>>,
     csum |-> <<>>, total_size |-> 0, snap |-> <<>>]

\* an answer of the upload server
TResp(op, status, id, offset, new_offset, csum, offset_ok) ==
    [op |-> op, status |-> status, id |-> id, offset |-> offset,
     new_offset |-> new_offset, csum |-> csum, offset_ok |-> offset_ok]

\* the answer that ends the request of task w with an error
Fail(w, status, offset_ok) ==
    /\ tresp' = TResp(req[w].op, status, req[w].id, req[w].offset, 0,
                      ChecksumKind(req[w].csum, req[w].data), offset_ok)
    /\ req' = [req EXCEPT ![w] = Idle]

\* FileStorage::new on an empty data directory
InitTus ==
    /\ uploads = <<>>
    /\ partial = <<>>
    /\ sidecar = <<>>
    /\ complete = <<>>
    /\ created = {}
    /\ req = [w \in Workers |-> Idle]
    /\ tresp = TResp(None, 0, None, 0, 0, "none", FALSE)
    /\ epoch = 0

\* mutant of StatusOf: every error takes the arm of the remaining errors
StatusOfRemaining(err) == 500

\* TusErrorResponse::into_response
StatusOf(err) ==
    CASE err = "NotFound" -> 404
      [] err = "InvalidOffset" -> 409
      [] err = "FileTooLarge" -> 413
      [] err = "InvalidContentType" -> 415
      [] err = "MissingHeader" -> 400
      [] err = "ChecksumMismatch" -> 417
      [] OTHER -> 500

\* the request headers a handler validates: all present and valid, no (or an
\* unsupported) Tus-Resumable, a wrong Content-Type, no Upload-Offset / Upload-Length
HeaderCases == {"ok", "no_tus", "bad_content_type", "no_number"}

\* mutant of OffsetMismatch: only an offset beyond the current one is refused
OffsetMismatchBeyond(offset, upload_offset) == offset > upload_offset

\* write_chunk: if offset != upload.offset
OffsetMismatch(offset, upload_offset) == offset # upload_offset

\* handle_create (POST /files) up to the call of write_chunk
HandleCreate(w, id, length, filename, n, csum, hdr) ==
    /\ req[w].pc = "idle"
    /\ id \notin created
    /\ IF hdr # "ok"
       THEN /\ tresp' = TResp("post", StatusOf("MissingHeader"), id, 0, 0, "none", FALSE)
            /\ UNCHANGED <<uploads, partial, sidecar, created, req>>
       ELSE IF length > TusMaxSize
       THEN /\ tresp' = TResp("post", StatusOf("FileTooLarge"), id, 0, 0, "none", FALSE)
            /\ UNCHANGED <<uploads, partial, sidecar, created, req>>
       ELSE /\ partial' = Put(partial, id, <<>>)
            /\ sidecar' = Put(sidecar, id, NewUpload(length, filename))
            /\ uploads' = Put(uploads, id, NewUpload(length, filename))
            /\ created' = created \cup {id}
            /\ IF n = 0
               THEN /\ tresp' = TResp("post", 201, id, 0, 0, "none", FALSE)
                    /\ UNCHANGED req
               ELSE /\ req' = [req EXCEPT ![w] =
                                 [pc |-> "check", op |-> "post", id |-> id,
                                  offset |-> 0, data |-> Bytes(w, n), csum |-> csum,
                                  total_size |-> length, snap |-> <<>>]]
                    /\ UNCHANGED tresp
    /\ UNCHANGED <<complete, epoch>>

\* handle_head (HEAD /files/{id})
HandleHead(id, hdr) ==
    /\ tresp' =
         IF hdr # "ok"
         THEN TResp("head", StatusOf("MissingHeader"), id, 0, 0, "none", FALSE)
         ELSE IF id \notin DOMAIN uploads
         THEN TResp("head", StatusOf("NotFound"), id, 0, 0, "none", FALSE)
         ELSE TResp("head", 200, id, 0, uploads[id].offset, "none", FALSE)
    /\ UNCHANGED <<uploads, partial, sidecar, complete, created, req,
                   epoch>>

\* handle_delete (DELETE /files/{id}) and FileStorage::delete_upload
HandleDelete(id, hdr) ==
    /\ IF hdr # "ok"
       THEN /\ tresp' = TResp("delete", StatusOf("MissingHeader"), id, 0, 0,
                              "none", FALSE)
            /\ UNCHANGED <<uploads, partial, sidecar>>
       ELSE /\ partial' = Drop(partial, id)
            /\ sidecar' = Drop(sidecar, id)
            /\ uploads' = Drop(uploads, id)
            /\ tresp' = TResp("delete", 204, id, 0, 0, "none", FALSE)
    /\ UNCHANGED <<complete, created, req, epoch>>

\* handle_patch (PATCH /files/{id}) up to the call of write_chunk
HandlePatch(w, id, offset, n, csum, hdr) ==
    /\ req[w].pc = "idle"
    /\ offset + n <= MaxUploadOffset
    /\ LET err == IF hdr = "no_tus" THEN "MissingHeader"
                  ELSE IF hdr = "bad_content_type" THEN "InvalidContentType"
                  ELSE IF hdr = "no_number" THEN "MissingHeader"
                  ELSE IF id \notin DOMAIN uploads THEN "NotFound"
                  ELSE None
       IN  IF err # None
           THEN /\ tresp' = TResp("patch", StatusOf(err), id, 0, 0, "none", FALSE)
                /\ UNCHANGED req
           ELSE /\ req' = [req EXCEPT ![w] =
                             [pc |-> "check", op |-> "patch", id |-> id,
                              offset |-> offset, data |-> Bytes(w, n),
                              csum |-> csum, total_size |-> uploads[id].length,
                              snap |-> <<>>]]
                /\ UNCHANGED tresp
    /\ UNCHANGED <<uploads, partial, sidecar, complete, created, epoch>>

\* write_chunk: look the upload up, compare the offsets, verify the checksum
WriteChunkCheck(w) ==
    /\ req[w].pc = "check"
    /\ LET id == req[w].id
       IN  IF id \notin DOMAIN uploads
           THEN Fail(w, StatusOf("NotFound"), FALSE)
           ELSE IF OffsetMismatch(req[w].offset, uploads[id].offset)
           THEN Fail(w, StatusOf("InvalidOffset"), FALSE)
           ELSE IF req[w].csum # <<>> /\ ChecksumOf(req[w].data) # req[w].csum[1]
           THEN Fail(w, StatusOf("ChecksumMismatch"), TRUE)
           ELSE /\ req' = [req EXCEPT ![w].pc = "write"]
                /\ UNCHANGED tresp
    /\ UNCHANGED <<uploads, partial, sidecar, complete, created, epoch>>

\* write_chunk: open the partial file, seek, write, flush
WriteChunkWrite(w) ==
    /\ req[w].pc = "write"
    /\ LET id == req[w].id
       IN  IF id \notin DOMAIN partial
           THEN /\ Fail(w, StatusOf("IoError"), TRUE)
                /\ UNCHANGED partial
           ELSE /\ partial' = Put(partial, id,
                                  WriteAt(partial[id], req[w].offset, req[w].data))
                /\ req' = [req EXCEPT ![w].pc = "update"]
                /\ UNCHANGED tresp
    /\ UNCHANGED <<uploads, sidecar, complete, created, epoch>>

\* write_chunk: store the new offset, mark the upload complete at its length
WriteChunkUpdate(w) ==
    /\ req[w].pc = "update"
    /\ LET id         == req[w].id
           new_offset == req[w].offset + Len(req[w].data)
       IN  IF id \in DOMAIN uploads
           THEN LET done == uploads[id].is_complete \/ new_offset >= uploads[id].length
                IN  /\ uploads' = [uploads EXCEPT ![id].offset = new_offset,
                                                  ![id].is_complete = done]
                    /\ req' = [req EXCEPT ![w].pc =
                                     IF done THEN "finalize" ELSE "getsnap"]
           ELSE /\ req' = [req EXCEPT ![w].pc = "getsnap"]
                /\ UNCHANGED uploads
    /\ UNCHANGED <<partial, sidecar, complete, created, tresp, epoch>>

\* finalize_upload: look the upload up, rename the partial file
FinalizeRename(w) ==
    /\ req[w].pc = "finalize"
    /\ LET id == req[w].id
       IN  IF id \notin DOMAIN uploads
           THEN /\ Fail(w, StatusOf("NotFound"), TRUE)
                /\ UNCHANGED <<partial, complete>>
           ELSE IF RenameFails(id, SafeFilename(id, uploads[id]))
           THEN /\ Fail(w, StatusOf("IoError"), TRUE)
                /\ UNCHANGED <<partial, complete>>
           ELSE /\ complete' = Put(complete, SafeFilename(id, uploads[id]),
                                   partial[id])
                /\ partial' = Drop(partial, id)
                /\ req' = [req EXCEPT ![w].pc = "rmmeta",
                                      ![w].snap = <<uploads[id]>>]
                /\ UNCHANGED tresp
    /\ UNCHANGED <<uploads, sidecar, created, epoch>>

\* finalize_upload: remove the sidecar
FinalizeRemoveMeta(w) ==
    /\ req[w].pc = "rmmeta"
    /\ sidecar' = Drop(sidecar, req[w].id)
    /\ req' = [req EXCEPT ![w].pc = "setpath"]
    /\ UNCHANGED <<uploads, partial, complete, created, tresp, epoch>>

\* finalize_upload: record final_path
FinalizeSetPath(w) ==
    /\ req[w].pc = "setpath"
    /\ LET id == req[w].id
       IN  IF id \in DOMAIN uploads
           THEN uploads' = [uploads EXCEPT ![id].final_path =
                               <<SafeFilename(id, req[w].snap[1])>>]
           ELSE UNCHANGED uploads
    /\ req' = [req EXCEPT ![w].pc = "respond"]
    /\ UNCHANGED <<partial, sidecar, complete, created, tresp, epoch>>

\* write_chunk, upload not complete: read the record back
WriteChunkSnapshot(w) ==
    /\ req[w].pc = "getsnap"
    /\ LET id == req[w].id
       IN  IF id \notin DOMAIN uploads
           THEN Fail(w, StatusOf("NotFound"), TRUE)
           ELSE /\ req' = [req EXCEPT ![w].pc = "savemeta",
                                      ![w].snap = <<uploads[id]>>]
                /\ UNCHANGED tresp
    /\ UNCHANGED <<uploads, partial, sidecar, complete, created, epoch>>

\* write_chunk, upload not complete: save the sidecar; the handler answers
WriteChunkSave(w) ==
    /\ req[w].pc = "savemeta"
    /\ LET id         == req[w].id
           new_offset == req[w].offset + Len(req[w].data)
       IN  /\ sidecar' = Put(sidecar, id, req[w].snap[1])
           /\ tresp' = TResp(req[w].op, IF req[w].op = "post" THEN 201 ELSE 204,
                             id, req[w].offset, new_offset,
                             ChecksumKind(req[w].csum, req[w].data), TRUE)
    /\ req' = [req EXCEPT ![w] = Idle]
    /\ UNCHANGED <<uploads, partial, complete, created, epoch>>

\* the handler's answer once write_chunk has finalized the upload
RespondComplete(w) ==
    /\ req[w].pc = "respond"
    /\ LET id         == req[w].id
           new_offset == req[w].offset + Len(req[w].data)
       IN  IF /\ req[w].op = "patch"
              /\ new_offset >= req[w].total_size
              /\ id \notin DOMAIN uploads
           THEN Fail(w, StatusOf("NotFound"), TRUE)
           ELSE /\ tresp' = TResp(req[w].op,
                                  IF req[w].op = "post" THEN 201 ELSE 204,
                                  id, req[w].offset, new_offset,
                                  ChecksumKind(req[w].csum, req[w].data), TRUE)
                /\ req' = [req EXCEPT ![w] = Idle]
    /\ UNCHANGED <<uploads, partial, sidecar, complete, created, epoch>>

\* the process stops at any point and starts again: FileStorage::new with
\* recover_uploads over the same directory
Restart ==
    /\ epoch < MaxRestarts
    /\ epoch' = epoch + 1
    /\ uploads' = [id \in {i \in DOMAIN sidecar : ~sidecar[i].is_complete} |->
                      sidecar[id]]
    /\ req' = [w \in Workers |-> Idle]
    /\ tresp' = TResp("restart", 0, None, 0, 0, "none", FALSE)
    /\ UNCHANGED <<partial, sidecar, complete, created>>

(***************************************************************************)
(* PART III  -  concurrent appends, the broadcast channel, SSE, long-poll  *)
(*              (streams/storage.rs, streams/server.rs)                    *)
(***************************************************************************)
VARIABLES
    ap,      \* per task running MessageStorage::append: its position and message
    sub,     \* a receiver obtained from subscribe(): the messages handed to it
    sse,     \* one SSE connection: position, parameters, events emitted, receiver
    poll     \* one long-poll request: position, parameters, time waited, receiver

bvars == <<ap, sub, sse, poll>>

\* tasks that call append at the same time
Appenders == {1, 2}

\* a task that is not inside append
ApIdle == [pc |-> "idle", msg |-> <<>>]

\* no SSE connection
SseIdle ==
    [pc |-> "idle", user |-> None, with_user |-> None, eff |-> 0, given |-> FALSE,
     events |-> <<>>, beats |-> 0, on |-> FALSE, q |-> <<>>]

\* no long-poll request
PollIdle ==
    [pc |-> "idle", user |-> None, with_user |-> None, offset |-> 0,
     timeout_secs |-> 0, waited |-> 0, resp |-> <<>>, on |-> FALSE, q |-> <<>>]

\* no receiver, no task, no connection
InitLive ==
    /\ ap = [t \in Appenders |-> ApIdle]
    /\ sub = [on |-> FALSE, q |-> <<>>]
    /\ sse = SseIdle
    /\ poll = PollIdle

\* a receiver after message_tx.send(msg): the message is queued for it when it
\* exists (tokio broadcast hands every value sent after subscribe() to the
\* receiver, in the order of the send calls)
Enqueue(r, msg) == IF r.on THEN [r EXCEPT !.q = Append(@, msg)] ELSE r

\* message_tx.send(message.clone())
Broadcast(msg) ==
    /\ sub' = Enqueue(sub, msg)
    /\ sse' = Enqueue(sse, msg)
    /\ poll' = Enqueue(poll, msg)

\* MessageStorage::subscribe
Subscribe ==
    /\ ~sub.on
    /\ sub' = [on |-> TRUE, q |-> <<>>]
    /\ UNCHANGED <<svars, ap, sse, poll>>

\* append: the write lock on current_offset; the counter is incremented and
\* the new value becomes the offset of the message
AppendAssign(t, id, payload, sender, recipient) ==
    /\ ap[t].pc = "idle"
    /\ current_offset < MaxOffset
    /\ current_offset' = current_offset + 1
    /\ ap' = [ap EXCEPT ![t] =
                [pc |-> "insert",
                 msg |-> <<[id |-> id, offset |-> current_offset + 1,
                            byte_size |-> Len(payload), sender_id |-> sender,
                            recipient_id |-> recipient, timestamp |-> now]>>]]
    /\ UNCHANGED <<total_bytes, etag, messages, streams, now, sresp, lastOk,
                   seenEtag, appendedSince, sub, sse, poll>>

\* append: the INSERT under the database mutex; an error ends the call
AppendInsert(t) ==
    /\ ap[t].pc = "insert"
    /\ LET m == ap[t].msg[1]
       IN  IF InsertFails(m.id, m.offset)
           THEN /\ sresp' = Resp("append", 500, 0, None, None, None, {})
                /\ ap' = [ap EXCEPT ![t] = ApIdle]
                /\ UNCHANGED messages
           ELSE /\ messages' = messages \cup {m}
                /\ ap' = [ap EXCEPT ![t].pc = "bytes"]
                /\ UNCHANGED sresp
    /\ UNCHANGED <<current_offset, total_bytes, etag, streams, now, lastOk,
                   seenEtag, appendedSince, sub, sse, poll>>

\* append: the write lock on total_bytes
AppendBytes(t) ==
    /\ ap[t].pc = "bytes"
    /\ total_bytes' = total_bytes + ap[t].msg[1].byte_size
    /\ ap' = [ap EXCEPT ![t].pc = "etag"]
    /\ UNCHANGED <<current_offset, etag, messages, streams, now, sresp, lastOk,
                   seenEtag, appendedSince, sub, sse, poll>>

\* append: the etag is recomputed from the counters as they are now
AppendEtag(t) ==
    /\ ap[t].pc = "etag"
    /\ etag' = GenerateEtag(current_offset, total_bytes)
    /\ ap' = [ap EXCEPT ![t].pc = "send"]
    /\ UNCHANGED <<current_offset, total_bytes, messages, streams, now, sresp,
                   lastOk, seenEtag, appendedSince, sub, sse, poll>>

\* append: the message is published and returned
AppendSend(t) ==
    /\ ap[t].pc = "send"
    /\ Broadcast(ap[t].msg[1])
    /\ sresp' = Resp("append", 200, ap[t].msg[1].offset, None, None, None, {})
    /\ lastOk' = ap[t].msg[1].offset
    /\ appendedSince' = [p \in Paths |-> TRUE]
    /\ ap' = [ap EXCEPT ![t] = ApIdle]
    /\ UNCHANGED <<current_offset, total_bytes, etag, messages, streams, now,
                   seenEtag>>

\* the process stops and starts again: MessageStorage::new over the same
\* database; the counters are rebuilt from the rows, the channel is new
StoreRestart ==
    /\ current_offset' = MaxRowOffset(messages)
    /\ total_bytes' = SumByteSize(messages)
    /\ etag' = GenerateEtag(MaxRowOffset(messages), SumByteSize(messages))
    /\ sresp' = Resp("restart", 0, 0, None, None, None, {})
    /\ ap' = [t \in Appenders |-> ApIdle]
    /\ sub' = [on |-> FALSE, q |-> <<>>]
    /\ sse' = SseIdle
    /\ poll' = PollIdle
    /\ UNCHANGED <<messages, streams, now, lastOk, seenEtag, appendedSince>>

\* rows a catch-up or a first long-poll query reads at most; it stands for the
\* 100 of the two handlers, scaled to the size of the logs explored here
PageLimit == 1

\* heartbeats of one connection
MaxBeats == 1

\* the scope filter of the live loops and of the two scoped queries: with a
\* partner, the messages between the two; without, the messages from or to the
\* caller
InScope(m, user, with_user) ==
    IF with_user # None
    THEN \/ (m.sender_id = user /\ m.recipient_id = with_user)
         \/ (m.sender_id = with_user /\ m.recipient_id = user)
    ELSE m.sender_id = user \/ m.recipient_id = user

\* MessageStorage::get_conversation
GetConversation(user, other, from_offset, limit) ==
    Take(SortByOffset({r \in messages :
                          /\ r.offset > from_offset
                          /\ InScope(r, user, other)}), limit)

\* MessageStorage::get_user_messages
GetUserMessages(user, from_offset, limit) ==
    Take(SortByOffset({r \in messages :
                          /\ r.offset > from_offset
                          /\ InScope(r, user, None)}), limit)

\* the query both handlers choose by with_user
ScopedQuery(user, with_user, from_offset) ==
    IF with_user # None
    THEN GetConversation(user, with_user, from_offset, PageLimit)
    ELSE GetUserMessages(user, from_offset, PageLimit)

\* Event::default().event("connected").id(current.to_string())
ConnectedEvent(current) ==
    [event |-> "connected", id |-> ToString(current), msg |-> <<>>]

\* Event::default().event("message").id(msg.offset.to_string())
MessageEvent(m) == [event |-> "message", id |-> ToString(m.offset), msg |-> <<m>>]

\* Event::default().event("heartbeat")
HeartbeatEvent == [event |-> "heartbeat", id |-> None, msg |-> <<>>]

\* handle_sse_stream: the catch-up runs when the effective offset is above 0
CatchUpNeeded(s) == s.eff > 0

\* handle_sse_stream up to the creation of the stream: Last-Event-ID, when it
\* is a number, wins over ?offset=, which defaults to 0
HandleSseStream(user, with_user, query_offset, last_event_id) ==
    /\ sse.pc = "idle"
    /\ sse' = [SseIdle EXCEPT
                 !.pc = "connected", !.user = user, !.with_user = with_user,
                 !.eff = IF last_event_id # <<>> THEN last_event_id[1]
                         ELSE IF query_offset # <<>> THEN query_offset[1] ELSE 0,
                 !.given = (last_event_id # <<>> \/ query_offset # <<>>)]
    /\ UNCHANGED <<svars, ap, sub, poll>>

\* the stream: current_offset is read and the connected event is yielded
SseConnected ==
    /\ sse.pc = "connected"
    /\ sse' = [sse EXCEPT !.pc = "catchup",
                          !.events = Append(@, ConnectedEvent(current_offset))]
    /\ UNCHANGED <<svars, ap, sub, poll>>

\* the stream: the history catch-up
SseCatchUp ==
    /\ sse.pc = "catchup"
    /\ sse' = [sse EXCEPT
                 !.pc = "subscribe",
                 !.events =
                     IF CatchUpNeeded(sse)
                     THEN LET msgs == ScopedQuery(sse.user, sse.with_user, sse.eff)
                          IN  @ \o [i \in 1..Len(msgs) |-> MessageEvent(msgs[i])]
                     ELSE @]
    /\ UNCHANGED <<svars, ap, sub, poll>>

\* the stream: storage.subscribe()
SseSubscribe ==
    /\ sse.pc = "subscribe"
    /\ sse' = [sse EXCEPT !.pc = "live", !.on = TRUE, !.q = <<>>]
    /\ UNCHANGED <<svars, ap, sub, poll>>

\* the stream: rx.recv() hands over a message, which is yielded when in scope
\* (the channel holds 1000 messages, more than fit in these bounds, so the
\* receiver does not lag)
SseRecv ==
    /\ sse.pc = "live"
    /\ sse.q # <<>>
    /\ sse' = [sse EXCEPT
                 !.q = Tail(@),
                 !.events = IF InScope(Head(sse.q), sse.user, sse.with_user)
                            THEN Append(@, MessageEvent(Head(sse.q)))
                            ELSE @]
    /\ UNCHANGED <<svars, ap, sub, poll>>

\* the stream: heartbeat.tick()
SseHeartbeat ==
    /\ sse.pc = "live"
    /\ sse.beats < MaxBeats
    /\ sse' = [sse EXCEPT !.beats = @ + 1, !.events = Append(@, HeartbeatEvent)]
    /\ UNCHANGED <<svars, ap, sub, poll>>

\* the longest a long-poll waits, in seconds
MaxPollSecs == 60

\* default_timeout
DefaultTimeout == 30

\* timeout_secs a client may send
PollTimeouts == {0, DefaultTimeout, DefaultTimeout + MaxPollSecs}

\* a wait as long as the client asked for
PollDurationAsSent(timeout_secs) == timeout_secs

\* Duration::from_secs(query.timeout_secs.min(60))
PollDuration(timeout_secs) == Min(timeout_secs, MaxPollSecs)

\* LongPollResponse
LongPollResponse(msgs, next_offset) ==
    [messages |-> msgs, next_offset |-> next_offset, has_more |-> FALSE]

\* the test of the waiting loop: in scope and above the offset of the request
PollMatch(m) == InScope(m, poll.user, poll.with_user) /\ m.offset > poll.offset

\* handle_long_poll: the request is read
HandleLongPoll(user, with_user, offset, timeout_secs) ==
    /\ poll.pc = "idle"
    /\ poll' = [PollIdle EXCEPT !.pc = "query", !.user = user,
                                !.with_user = with_user, !.offset = offset,
                                !.timeout_secs = timeout_secs]
    /\ UNCHANGED <<svars, ap, sub, sse>>

\* handle_long_poll: the stored messages are read; any found are the answer
PollQuery ==
    /\ poll.pc = "query"
    /\ LET msgs == ScopedQuery(poll.user, poll.with_user, poll.offset)
       IN  poll' = IF msgs # <<>>
                   THEN [poll EXCEPT
                           !.pc = "done",
                           !.resp = <<LongPollResponse(msgs, msgs[Len(msgs)].offset)>>]
                   ELSE [poll EXCEPT !.pc = "subscribe"]
    /\ UNCHANGED <<svars, ap, sub, sse>>

\* handle_long_poll: storage.subscribe()
PollSubscribe ==
    /\ poll.pc = "subscribe"
    /\ poll' = [poll EXCEPT !.pc = "wait", !.on = TRUE, !.q = <<>>]
    /\ UNCHANGED <<svars, ap, sub, sse>>

\* handle_long_poll: rx.recv() hands over a message; a matching one is the
\* answer, any other is dropped (the channel holds 1000 messages, more than
\* fit in these bounds, so the receiver does not lag)
PollRecv ==
    /\ poll.pc = "wait"
    /\ poll.q # <<>>
    /\ LET msg == Head(poll.q)
       IN  poll' = IF PollMatch(msg)
                   THEN [poll EXCEPT !.pc = "done", !.on = FALSE, !.q = <<>>,
                                     !.resp = <<LongPollResponse(<<msg>>, msg.offset)>>]
                   ELSE [poll EXCEPT !.q = Tail(@)]
    /\ UNCHANGED <<svars, ap, sub, sse>>

\* time passes while the request waits, up to the deadline of its timer
PollElapse ==
    /\ poll.pc = "wait"
    /\ \E d \in PollTimeouts \cup {MaxPollSecs} :
           /\ poll.waited < d
           /\ d <= PollDuration(poll.timeout_secs)
           /\ poll' = [poll EXCEPT !.waited = d]
    /\ UNCHANGED <<svars, ap, sub, sse>>

\* handle_long_poll: the timer fires with nothing to receive
PollTimeout ==
    /\ poll.pc = "wait"
    /\ poll.q = <<>>
    /\ poll.waited >= PollDuration(poll.timeout_secs)
    /\ poll' = [poll EXCEPT !.pc = "done", !.on = FALSE,
                            !.resp = <<LongPollResponse(<<>>, poll.offset)>>]
    /\ UNCHANGED <<svars, ap, sub, sse>>

(***************************************************************************)
(* PART IV  -  the peer fabric: discovery, presence, peer messaging         *)
(*             (internal_p2p.rs)                                           *)
(***************************************************************************)
VARIABLES
    running,        \* InternalP2PState.running
    my_school_id,   \* InternalP2PState.my_school_id
    peers,          \* InternalP2PState.peers: peer id -> PeerInfo
    message_queue,  \* InternalP2PState.message_queue: user id -> queued messages
    guard,          \* who holds the state mutex across steps: "free" or "disc"
    emitted,        \* the events the last step handed to app.emit, in order
    pclock,         \* the wall clock, in minutes
    disc,           \* the discovery hub's task inside handle_discovery_message
    snd,            \* one task inside send_to_peer
    cln             \* the cleanup task: "wait" for its interval, or "swept"

pvars == <<running, my_school_id, peers, message_queue, guard, emitted, pclock,
           disc, snd, cln>>

\* the largest clock value explored, in minutes
MaxPeerClock == 6

\* messages one user's offline queue holds at most in the states explored
MaxQueue == 2

\* minutes after which a silent peer is flipped offline (5 * 60 * 1000 ms)
OfflineAfter == 5

\* peer ids seen on the network, and the local one
PeerIds == {"p1", "p2"}
MyPeerId == "me"

\* school ids a datagram or a start call may carry: none, or one
SchoolIds == {<<>>, <<"s1">>}

\* unwrap_or("default-school")
SchoolOrDefault(school_id) ==
    IF school_id = <<>> THEN "default-school" ELSE school_id[1]

\* the address a datagram of a peer comes from
IpOf(peer_id) == <<"ip", peer_id>>

\* PeerInfo
PeerInfo(peer_id, user_id, school_id, ip, last_seen, is_online) ==
    [peerId |-> peer_id, userId |-> user_id, schoolId |-> school_id,
     ipAddress |-> ip, lastSeen |-> last_seen, isOnline |-> is_online]

\* an event handed to app.emit
Event(name, peer) == [name |-> name, peer |-> peer]

\* the hub's task outside handle_discovery_message
DiscIdle ==
    [pc |-> "idle", dgram |-> <<>>, taken |-> <<>>, batch |-> <<>>, out |-> <<>>]

\* no task inside send_to_peer
SndIdle ==
    [pc |-> "idle", receiver |-> None, msg |-> None, peer |-> <<>>,
     tcp |-> "none", udp |-> "none", outcome |-> "none"]

\* InternalP2PManager::new
InitPeers ==
    /\ running = FALSE
    /\ my_school_id = ""
    /\ peers = <<>>
    /\ message_queue = <<>>
    /\ guard = "free"
    /\ emitted = <<>>
    /\ pclock = 0
    /\ disc = DiscIdle
    /\ snd = SndIdle
    /\ cln = "wait"

\* the queue of a user; no entry reads as no message
QueueOf(user) ==
    IF user \in DOMAIN message_queue THEN message_queue[user] ELSE <<>>

\* InternalP2PManager::start
Start(school_id) ==
    /\ guard = "free"
    /\ IF running
       THEN /\ emitted' = <<>>
            /\ UNCHANGED <<running, my_school_id>>
       ELSE /\ running' = TRUE
            /\ my_school_id' = SchoolOrDefault(school_id)
            /\ emitted' = <<Event("p2p:started", None)>>
    /\ UNCHANGED <<peers, message_queue, guard, pclock, disc, snd, cln>>

\* InternalP2PManager::stop
Stop ==
    /\ guard = "free"
    /\ IF ~running
       THEN /\ emitted' = <<>>
            /\ UNCHANGED <<running, peers, message_queue>>
       ELSE /\ running' = FALSE
            /\ peers' = <<>>
            /\ message_queue' = <<>>
            /\ emitted' = <<Event("p2p:stopped", None)>>
    /\ UNCHANGED <<my_school_id, guard, pclock, disc, snd, cln>>

\* the school test of handle_discovery_message: a datagram passes when the
\* local school id is empty or equal to its own
SchoolAccepted(school) == my_school_id = "" \/ school = my_school_id

\* handle_discovery_message passes a datagram on to the upsert
Accepted(dgram) ==
    /\ dgram.type \in {"discovery", "discovery-response"}
    /\ dgram.peerId # <<>>
    /\ dgram.userId # <<>>
    /\ dgram.peerId[1] # MyPeerId
    /\ SchoolAccepted(SchoolOrDefault(dgram.schoolId))

\* handle_discovery_message up to the upsert and its event.  A datagram that
\* is not accepted ends the call.  After a `discovery` the guard of the state
\* mutex is dropped; after a `discovery-response` it is still held
HandleDiscoveryMessage(dgram) ==
    /\ disc.pc = "idle"
    /\ guard = "free"
    /\ IF ~Accepted(dgram)
       THEN /\ emitted' = <<>>
            /\ UNCHANGED <<peers, guard, disc>>
       ELSE LET peer_id     == dgram.peerId[1]
                is_new      == peer_id \notin DOMAIN peers
                was_offline == IF is_new THEN FALSE ELSE ~peers[peer_id].isOnline
                peer        == PeerInfo(peer_id, dgram.userId[1],
                                        SchoolOrDefault(dgram.schoolId),
                                        IpOf(peer_id), pclock, TRUE)
            IN  /\ peers' = Put(peers, peer_id, peer)
                /\ emitted' = IF is_new
                              THEN <<Event("p2p:peer-discovered", peer_id)>>
                              ELSE IF was_offline
                                   THEN <<Event("p2p:peer-online", peer_id)>>
                                   ELSE <<>>
                /\ IF dgram.type = "discovery"
                   THEN /\ guard' = "free"
                        /\ disc' = [DiscIdle EXCEPT !.pc = "respond",
                                                    !.dgram = <<dgram>>]
                   ELSE /\ guard' = "disc"
                        /\ disc' = [DiscIdle EXCEPT !.pc = "drain",
                                                    !.dgram = <<dgram>>]
    /\ UNCHANGED <<running, my_school_id, message_queue, pclock, snd, cln>>

\* send_discovery_response: the local identity is read under the state mutex
\* and the response is sent
DiscRespond ==
    /\ disc.pc = "respond"
    /\ guard = "free"
    /\ disc' = [disc EXCEPT !.pc = "drain"]
    /\ emitted' = <<>>
    /\ UNCHANGED <<running, my_school_id, peers, message_queue, guard, pclock, snd, cln>>

\* deliver_queued_messages: the state mutex is locked and the queue of the
\* user is taken out
DiscDrainTake ==
    /\ disc.pc = "drain"
    /\ guard = "free"
    /\ LET user == disc.dgram[1].userId[1]
       IN  /\ message_queue' = Drop(message_queue, user)
           /\ disc' = IF QueueOf(user) = <<>>
                      THEN DiscIdle
                      ELSE [disc EXCEPT !.pc = "sending", !.taken = QueueOf(user),
                                        !.batch = QueueOf(user)]
    /\ emitted' = <<>>
    /\ UNCHANGED <<running, my_school_id, peers, guard, pclock, snd, cln>>

\* deliver_queued_messages: the next message goes out over TCP, over UDP when
\* TCP failed, and is given up when both failed
DiscSendNext ==
    /\ disc.pc = "sending"
    /\ disc.batch # <<>>
    /\ guard = "free"
    /\ \E via \in {"tcp", "udp", "lost"} :
           disc' = [disc EXCEPT
                      !.batch = Tail(@),
                      !.out = Append(@, [msg |-> Head(disc.batch), via |-> via])]
    /\ emitted' = <<>>
    /\ UNCHANGED <<running, my_school_id, peers, message_queue, guard, pclock, snd, cln>>

\* deliver_queued_messages and handle_discovery_message return
DiscReturn ==
    /\ disc.pc = "sending"
    /\ disc.batch = <<>>
    /\ disc' = DiscIdle
    /\ emitted' = <<>>
    /\ UNCHANGED <<running, my_school_id, peers, message_queue, guard, pclock, snd, cln>>

\* the peers send_to_peer may find for a user: any record with that user id
FindPeer(receiver_id) == {id \in DOMAIN peers : peers[id].userId = receiver_id}

\* send_to_peer: the peer table is searched under the state mutex
SendToPeer(receiver_id, msg) ==
    /\ snd.pc = "idle"
    /\ guard = "free"
    /\ IF FindPeer(receiver_id) = {}
       THEN snd' = [SndIdle EXCEPT !.pc = "queue", !.receiver = receiver_id,
                                   !.msg = msg]
       ELSE \E id \in FindPeer(receiver_id) :
                snd' = [SndIdle EXCEPT !.pc = "tcp", !.receiver = receiver_id,
                                       !.msg = msg, !.peer = <<id>>]
    /\ emitted' = <<>>
    /\ UNCHANGED <<running, my_school_id, peers, message_queue, guard, pclock, disc, cln>>

\* where send_to_peer goes after the UDP attempt whatever its result
AfterUdpAlwaysQueue(udp_success) == "queue"

\* where send_to_peer goes after the UDP attempt
AfterUdp(udp_success) == IF udp_success THEN "done" ELSE "queue"

\* send_to_peer: send_tcp_message; success ends the call
SendTcp ==
    /\ snd.pc = "tcp"
    /\ guard = "free"
    /\ \E tcp_success \in BOOLEAN :
           snd' = IF tcp_success
                  THEN [snd EXCEPT !.pc = "done", !.tcp = "ok", !.outcome = "tcp"]
                  ELSE [snd EXCEPT !.pc = "udp", !.tcp = "failed"]
    /\ emitted' = <<>>
    /\ UNCHANGED <<running, my_school_id, peers, message_queue, guard, pclock, disc, cln>>

\* send_to_peer: send_udp_message; success ends the call
SendUdp ==
    /\ snd.pc = "udp"
    /\ guard = "free"
    /\ \E udp_success \in BOOLEAN :
           snd' = [snd EXCEPT
                     !.pc = AfterUdp(udp_success),
                     !.udp = IF udp_success THEN "ok" ELSE "failed",
                     !.outcome = IF udp_success THEN "udp" ELSE "none"]
    /\ emitted' = <<>>
    /\ UNCHANGED <<running, my_school_id, peers, message_queue, guard, pclock, disc, cln>>

\* send_to_peer: queue_message appends to the queue of the receiver
SendQueue ==
    /\ snd.pc = "queue"
    /\ guard = "free"
    /\ Len(QueueOf(snd.receiver)) < MaxQueue
    /\ message_queue' = Put(message_queue, snd.receiver,
                            Append(QueueOf(snd.receiver), snd.msg))
    /\ snd' = [snd EXCEPT !.pc = "done",
                          !.outcome = IF @ = "none" THEN "queued" ELSE "both"]
    /\ emitted' = <<>>
    /\ UNCHANGED <<running, my_school_id, peers, guard, pclock, disc, cln>>

\* send_to_peer has returned
SendReturn ==
    /\ snd.pc = "done"
    /\ snd' = SndIdle
    /\ emitted' = <<>>
    /\ UNCHANGED <<running, my_school_id, peers, message_queue, guard, pclock, disc, cln>>

\* the orders in which a loop over a HashMap may visit a set of keys
Orderings(S) ==
    {f \in [1..Cardinality(S) -> S] : \A i, j \in 1..Cardinality(S) : f[i] = f[j] => i = j}

\* a peer counts as silent from the limit on
ExpiredAtLimit(now_min, last_seen) == SaturatingSub(now_min, last_seen) >= OfflineAfter

\* cleanup_loop: now.saturating_sub(last_seen) > 5 * 60 * 1000
Expired(now_min, last_seen) == SaturatingSub(now_min, last_seen) > OfflineAfter

\* the wall clock advances by a minute
PeerTick ==
    /\ pclock < MaxPeerClock
    /\ pclock' = pclock + 1
    /\ emitted' = <<>>
    /\ UNCHANGED <<running, my_school_id, peers, message_queue, guard, disc, snd, cln>>

\* cleanup_loop: one tick of its interval; under the state mutex every online
\* peer that is silent for too long is set offline and an event is emitted
CleanupSweep ==
    /\ running
    /\ cln = "wait"
    /\ guard = "free"
    /\ LET flipped == {id \in DOMAIN peers :
                          /\ peers[id].isOnline
                          /\ Expired(pclock, peers[id].lastSeen)}
       IN  /\ peers' = [id \in DOMAIN peers |->
                           IF id \in flipped
                           THEN [peers[id] EXCEPT !.isOnline = FALSE]
                           ELSE peers[id]]
           /\ \E order \in Orderings(flipped) :
                  emitted' = [i \in 1..Cardinality(flipped) |->
                                 Event("p2p:peer-offline", order[i])]
    /\ cln' = "swept"
    /\ UNCHANGED <<running, my_school_id, message_queue, guard, pclock, disc, snd>>

\* cleanup_loop: back to the select on the token and the interval
CleanupWait ==
    /\ cln = "swept"
    /\ cln' = "wait"
    /\ emitted' = <<>>
    /\ UNCHANGED <<running, my_school_id, peers, message_queue, guard, pclock,
                   disc, snd>>

\* update_peer_presence, called for a pong: the first record found with the
\* user id is set online and refreshed, and p2p:peer-online is emitted
UpdatePeerPresence(user_id) ==
    /\ guard = "free"
    /\ IF FindPeer(user_id) = {}
       THEN /\ emitted' = <<>>
            /\ UNCHANGED peers
       ELSE \E id \in FindPeer(user_id) :
                /\ peers' = [peers EXCEPT ![id].isOnline = TRUE,
                                          ![id].lastSeen = pclock]
                /\ emitted' = <<Event("p2p:peer-online", id)>>
    /\ UNCHANGED <<running, my_school_id, message_queue, guard, pclock, disc, snd, cln>>

(***************************************************************************)
(* PART V  -  what the servers were asked last                             *)
(***************************************************************************)
VARIABLES
    treq            \* the request the upload server took last: method, id, headers

ovars == <<treq>>

\* no request yet
InitObserved ==
    treq = [op |-> "none", id |-> None, hdr |-> "ok", length |-> 0, n |-> 0]

\* the upload server takes a request: method, upload id, the case of its
\* headers, and its Upload-Length; n tells one request from the next
TusRequest(op, id, hdr, length) ==
    treq' = [op |-> op, id |-> id, hdr |-> hdr, length |-> length, n |-> 1 - treq.n]

(***************************************************************************)
(* PART VI  -  the peer fabric: messages coming in over UDP and TCP        *)
(*             (internal_p2p.rs)                                           *)
(***************************************************************************)
VARIABLES
    my_user_id,      \* InternalP2PState.my_user_id
    file_transfers,  \* InternalP2PState.file_transfers: transfer id -> status
    inmsg,           \* the message handle_incoming_message took last
    wire,            \* the messages the last step sent back over UDP, in order
    dbops            \* the writes the last step handed to the local database

ivars == <<my_user_id, file_transfers, inmsg, wire, dbops>>

\* the user of this node, and the users a message may be addressed to ("" is
\* a missing or empty receiverId)
LocalUser == "u"
ReceiverIds == {"", LocalUser, "b"}

\* message types, as the words between their underscores; <<>> is a missing
\* type, <<"group", "poll">> and <<"status">> are types no arm matches
MessageTypes ==
    {<<>>, <<"chat">>, <<"delivery", "receipt">>, <<"read", "receipt">>,
     <<"typing">>, <<"group", "chat">>, <<"group", "create">>,
     <<"group", "join">>, <<"group", "leave">>, <<"group", "read", "receipt">>,
     <<"group", "delivery", "receipt">>, <<"group", "typing">>,
     <<"group", "poll">>, <<"file", "offer">>, <<"file", "accept">>,
     <<"file", "reject">>, <<"ping">>, <<"pong">>, <<"status">>}

\* a message as handle_incoming_message reads it: type, senderId, receiverId,
\* id and messageId, each "" when missing
Message(type, sender_id, receiver_id, id, message_id) ==
    [type |-> type, senderId |-> sender_id, receiverId |-> receiver_id,
     id |-> id, messageId |-> message_id]

\* the messages that may come in: of every type and for every receiver, and
\* those with a field missing that an arm looks at
Messages ==
    {Message(type, "a", receiver_id, "m1", "m1") :
         type \in MessageTypes, receiver_id \in ReceiverIds}
    \cup {Message(<<"chat">>, sender_id, LocalUser, id, id) :
              sender_id \in {"", "a"}, id \in {"", "m1"}}
    \cup {Message(type, "a", LocalUser, "", "") :
              type \in {<<"delivery", "receipt">>, <<"read", "receipt">>}}

\* InternalP2PManager::new
InitIncoming ==
    /\ my_user_id = ""
    /\ file_transfers = <<>>
    /\ inmsg = [msg |-> <<>>, n |-> 0]
    /\ wire = <<>>
    /\ dbops = <<>>

\* mutant of ShouldProcessMessage: every message is for this node
ShouldProcessAny(msg_type, receiver_id) == TRUE

\* should_process_message
ShouldProcessMessage(msg_type, receiver_id) ==
    IF Len(msg_type) > 1 /\ msg_type[1] = "group"
    THEN TRUE
    ELSE receiver_id = my_user_id \/ receiver_id = ""

\* a message sent back to the sender over UDP
Reply(type, receiver_id, message_id) ==
    [type |-> type, receiverId |-> receiver_id, messageId |-> message_id]

\* the events the arms of handle_incoming_message hand to app.emit, the arm
\* of pong aside
EventsOf(m) ==
    CASE m.type = <<"chat">> -> <<Event("messaging:received", m.id)>>
      [] m.type = <<"delivery", "receipt">> ->
             <<Event("messaging:delivery-receipt", m.messageId)>>
      [] m.type = <<"read", "receipt">> ->
             <<Event("messaging:read-receipt", m.messageId)>>
      [] m.type = <<"typing">> -> <<Event("messaging:typing", m.senderId)>>
      [] m.type = <<"group", "chat">> -> <<Event("group:message-received", m.id)>>
      [] m.type = <<"group", "create">> -> <<Event("group:created", m.id)>>
      [] m.type \in {<<"group", "join">>, <<"group", "leave">>} ->
             <<Event("group:member-changed", m.id)>>
      [] m.type = <<"group", "read", "receipt">> ->
             <<Event("group:read-receipt", m.id)>>
      [] m.type = <<"group", "delivery", "receipt">> ->
             <<Event("group:delivery-receipt", m.id)>>
      [] m.type = <<"group", "typing">> -> <<Event("group:typing", m.id)>>
      [] m.type = <<"file", "offer">> -> <<Event("p2p:file-offer", m.id)>>
      [] m.type = <<"file", "accept">> ->
             IF m.messageId \in DOMAIN file_transfers
             THEN <<Event("p2p:file-progress", m.messageId)>> ELSE <<>>
      [] m.type = <<"file", "reject">> ->
             IF m.messageId \in DOMAIN file_transfers
             THEN <<Event("p2p:file-complete", m.messageId)>> ELSE <<>>
      [] OTHER -> <<>>

\* send_delivery_receipt, the receipt of a group chat, send_pong
RepliesOf(m) ==
    CASE m.type = <<"chat">> ->
             IF m.senderId = "" \/ m.id = "" THEN <<>>
             ELSE <<Reply("delivery_receipt", m.senderId, m.id)>>
      [] m.type = <<"group", "chat">> ->
             <<Reply("group_delivery_receipt", m.senderId, m.id)>>
      [] m.type = <<"ping">> -> <<Reply("pong", m.senderId, "")>>
      [] OTHER -> <<>>

\* persist_message, update_delivered, update_read: the write that reaches the
\* database (none for an empty id)
WritesOf(m) ==
    CASE m.type = <<"chat">> ->
             IF m.id = "" THEN <<>> ELSE <<[op |-> "insert", id |-> m.id]>>
      [] m.type = <<"delivery", "receipt">> ->
             IF m.messageId = "" THEN <<>>
             ELSE <<[op |-> "delivered", id |-> m.messageId]>>
      [] m.type = <<"read", "receipt">> ->
             IF m.messageId = "" THEN <<>>
             ELSE <<[op |-> "read", id |-> m.messageId]>>
      [] OTHER -> <<>>

\* a FileTransfer: status, direction, fileSize and totalChunks
Transfer(status, direction, file_size, total_chunks) ==
    [status |-> status, direction |-> direction, fileSize |-> file_size,
     totalChunks |-> total_chunks]

\* handle_file_offer, handle_file_accept, handle_file_reject (the messages
\* that come in here carry no fileSize and no totalChunks: both are 0)
TransfersAfter(m) ==
    CASE m.type = <<"file", "offer">> ->
             Put(file_transfers, m.id, Transfer("pending", "receive", 0, 0))
      [] m.type = <<"file", "accept">> ->
             IF m.messageId \in DOMAIN file_transfers
             THEN [file_transfers EXCEPT ![m.messageId].status = "accepted"]
             ELSE file_transfers
      [] m.type = <<"file", "reject">> -> Drop(file_transfers, m.messageId)
      [] OTHER -> file_transfers

\* handle_incoming_message
HandleIncomingMessage(m) ==
    /\ guard = "free"
    /\ inmsg' = [msg |-> <<m>>, n |-> 1 - inmsg.n]
    /\ IF ~ShouldProcessMessage(m.type, m.receiverId)
       THEN /\ emitted' = <<>>
            /\ wire' = <<>>
            /\ dbops' = <<>>
            /\ UNCHANGED <<file_transfers, running, my_school_id, peers,
                           message_queue, guard, pclock, disc, snd, cln>>
       ELSE IF m.type = <<"pong">>
       THEN /\ UpdatePeerPresence(m.senderId)
            /\ wire' = <<>>
            /\ dbops' = <<>>
            /\ UNCHANGED file_transfers
       ELSE /\ emitted' = EventsOf(m)
            /\ wire' = RepliesOf(m)
            /\ dbops' = WritesOf(m)
            /\ file_transfers' = TransfersAfter(m)
            /\ UNCHANGED <<running, my_school_id, peers, message_queue, guard,
                           pclock, disc, snd, cln>>
    /\ UNCHANGED my_user_id

\* the size of one chunk of a file transfer, in bytes (64 * 1024)
ChunkSize == 65536

\* file sizes offered: around one chunk and around two
FileSizes ==
    {0, 1, ChunkSize - 1, ChunkSize, ChunkSize + 1, 2 * ChunkSize, 2 * ChunkSize + 1}

\* transfer ids (uuid v4 strings)
TransferIds == {"t1", "t2"}

\* offer_file: (file_size / (64 * 1024)).max(1), the division of u64
TotalChunks(file_size) ==
    LET q == file_size \div ChunkSize IN IF q > 1 THEN q ELSE 1

\* offer_file: the transfer is recorded under a new id and the offer goes to
\* the receiver through send_to_peer
OfferFile(receiver_id, file_size) ==
    /\ \E id \in TransferIds \ DOMAIN file_transfers :
           /\ file_transfers' =
                  Put(file_transfers, id,
                      Transfer("pending", "send", file_size, TotalChunks(file_size)))
           /\ SendToPeer(receiver_id, id)
    /\ UNCHANGED <<my_user_id, inmsg, wire, dbops>>

\* start, as called by the user of this node
StartAs(user_id, school_id) ==
    /\ Start(school_id)
    /\ my_user_id' = IF running THEN my_user_id ELSE user_id
    /\ UNCHANGED <<file_transfers, inmsg, wire, dbops>>

(***************************************************************************)
(* PART VII  -  the discovery hub (discovery_hub.rs)                       *)
(***************************************************************************)
VARIABLES
    hub,         \* DiscoveryHubState: port and token, each <<>> when None
    htasks,      \* the receive tasks spawned so far: token -> position, port
    hcancelled,  \* the tokens cancelled so far
    hres         \* what the last call of ensure_started returned

hvars == <<hub, htasks, hcancelled, hres>>

\* receive tasks spawned at most in the states explored
MaxHubTasks == 3

\* the port requested_discovery_port falls back to
DefaultDiscoveryPort == 41235

\* the ports bind_with_fallback tries, the requested one included
BindAttempts == 15

\* the ports a caller may request
RequestedPorts == {DefaultDiscoveryPort, DefaultDiscoveryPort + 1}

\* DiscoveryHub::new
InitHub ==
    /\ hub = [port |-> <<>>, token |-> <<>>]
    /\ htasks = <<>>
    /\ hcancelled = {}
    /\ hres = <<>>

\* the receive tasks that have not returned; each owns its socket
LiveTasks == {k \in DOMAIN htasks : htasks[k].pc # "exited"}

\* the ports held by the sockets of the receive tasks
BoundPorts == {htasks[k].port : k \in LiveTasks}

\* bind_with_fallback: the first port from start_port on that can be bound,
\* <<>> when none of the attempts binds
BindWithFallback(start_port, attempts) ==
    LET free == {p \in start_port..(start_port + attempts - 1) : p \notin BoundPorts}
    IN  IF free = {} THEN <<>>
        ELSE <<CHOOSE p \in free : \A q \in free : p <= q>>

\* DiscoveryHub::ensure_started
EnsureStarted(requested_port) ==
    /\ Cardinality(DOMAIN htasks) < MaxHubTasks
    /\ IF hub.port # <<>>
       THEN /\ hres' = hub.port
            /\ UNCHANGED <<hub, htasks>>
       ELSE LET bound == BindWithFallback(requested_port, BindAttempts)
                token == Cardinality(DOMAIN htasks) + 1
            IN  IF bound = <<>>
                THEN /\ hres' = <<"failed to bind discovery socket">>
                     /\ UNCHANGED <<hub, htasks>>
                ELSE /\ htasks' = Put(htasks, token,
                                      [pc |-> "recv", port |-> bound[1]])
                     /\ hub' = [port |-> bound, token |-> <<token>>]
                     /\ hres' = bound
    /\ UNCHANGED hcancelled

\* DiscoveryHub::stop
HubStop ==
    /\ hcancelled' = IF hub.token # <<>> THEN hcancelled \cup {hub.token[1]}
                     ELSE hcancelled
    /\ hub' = [port |-> <<>>, token |-> <<>>]
    /\ UNCHANGED <<htasks, hres>>

\* discovery_loop: select! takes the branch of recv_from (it may, whenever a
\* datagram is there, cancelled or not) and the dispatch begins
HubRecv(k) ==
    /\ k \in DOMAIN htasks
    /\ htasks[k].pc = "recv"
    /\ htasks' = [htasks EXCEPT ![k].pc = "dispatch"]
    /\ UNCHANGED <<hub, hcancelled, hres>>

\* discovery_loop: both handlers have returned, back to select!
HubDispatched(k) ==
    /\ k \in DOMAIN htasks
    /\ htasks[k].pc = "dispatch"
    /\ htasks' = [htasks EXCEPT ![k].pc = "recv"]
    /\ UNCHANGED <<hub, hcancelled, hres>>

\* discovery_loop: select! takes the branch of token.cancelled(); the task
\* returns and its socket is dropped
HubExit(k) ==
    /\ k \in DOMAIN htasks
    /\ htasks[k].pc = "recv"
    /\ k \in hcancelled
    /\ htasks' = [htasks EXCEPT ![k].pc = "exited"]
    /\ UNCHANGED <<hub, hcancelled, hres>>

(***************************************************************************)
(* PART VIII  -  the peer fabric: its background tasks (internal_p2p.rs)   *)
(***************************************************************************)
VARIABLES
    cancel_token,  \* InternalP2PState.cancel_token: <<>> when None
    cancelled,     \* the tokens cancelled so far
    spawned        \* per token, the five tasks spawned with it: kind -> position

kvars == <<cancel_token, cancelled, spawned>>

\* calls of start that spawn tasks, at most, in the states explored
MaxStarts == 1

\* the tasks start spawns
TaskKinds == {"udp", "tcp", "discovery", "cleanup", "heartbeat"}

\* InternalP2PManager::new
InitTasks ==
    /\ cancel_token = <<>>
    /\ cancelled = {}
    /\ spawned = <<>>

\* a task at the select! of its loop
AtSelect == [pc |-> "select", left |-> 0]

\* InternalP2PManager::start with the tasks it spawns
StartTasks(user_id, school_id) ==
    /\ running \/ Len(spawned) < MaxStarts
    /\ StartAs(user_id, school_id)
    /\ IF running
       THEN UNCHANGED <<cancel_token, spawned>>
       ELSE /\ cancel_token' = <<Len(spawned) + 1>>
            /\ spawned' = Append(spawned, [k \in TaskKinds |-> AtSelect])
    /\ UNCHANGED cancelled

\* InternalP2PManager::stop with the token it cancels; the join handles are
\* dropped, which leaves the tasks running
StopTasks ==
    /\ Stop
    /\ IF running /\ cancel_token # <<>>
       THEN /\ cancelled' = cancelled \cup {cancel_token[1]}
            /\ cancel_token' = <<>>
       ELSE UNCHANGED <<cancel_token, cancelled>>
    /\ UNCHANGED <<spawned, ivars>>

\* a task moves on to another position
Moves(t, kind, pc, left) ==
    spawned' = [spawned EXCEPT ![t][kind] = [pc |-> pc, left |-> left]]

\* select! takes the other branch than token.cancelled(): a datagram or a
\* connection has come in, or the interval has ticked (it may take it
\* whenever that branch is ready, cancelled or not)
TaskWake(t, kind) ==
    /\ t \in DOMAIN spawned
    /\ spawned[t][kind].pc = "select"
    /\ Moves(t, kind, "work", 0)
    /\ UNCHANGED <<pvars, ivars, cancel_token, cancelled>>

\* udp_message_loop: the datagram, a ping of user a, goes through
\* handle_incoming_message
UdpWork(t) ==
    /\ t \in DOMAIN spawned
    /\ spawned[t]["udp"].pc = "work"
    /\ HandleIncomingMessage(Message(<<"ping">>, "a", "", "m1", "m1"))
    /\ Moves(t, "udp", "select", 0)
    /\ UNCHANGED <<cancel_token, cancelled>>

\* tcp_message_loop: the connection gets a task of its own
TcpWork(t) ==
    /\ t \in DOMAIN spawned
    /\ spawned[t]["tcp"].pc = "work"
    /\ Moves(t, "tcp", "select", 0)
    /\ UNCHANGED <<pvars, ivars, cancel_token, cancelled>>

\* discovery_broadcast_loop: broadcast_discovery reads the identity under the
\* state mutex and sends the announcement
DiscoveryWork(t) ==
    /\ t \in DOMAIN spawned
    /\ spawned[t]["discovery"].pc = "work"
    /\ guard = "free"
    /\ Moves(t, "discovery", "select", 0)
    /\ emitted' = <<>>
    /\ UNCHANGED <<running, my_school_id, peers, message_queue, guard, pclock,
                   disc, snd, cln, ivars, cancel_token, cancelled>>

\* cleanup_loop: the sweep under the state mutex
CleanupWork(t) ==
    /\ t \in DOMAIN spawned
    /\ spawned[t]["cleanup"].pc = "work"
    /\ guard = "free"
    /\ LET flipped == {id \in DOMAIN peers :
                          /\ peers[id].isOnline
                          /\ Expired(pclock, peers[id].lastSeen)}
       IN  /\ peers' = [id \in DOMAIN peers |->
                           IF id \in flipped
                           THEN [peers[id] EXCEPT !.isOnline = FALSE]
                           ELSE peers[id]]
           /\ \E order \in Orderings(flipped) :
                  emitted' = [i \in 1..Cardinality(flipped) |->
                                 Event("p2p:peer-offline", order[i])]
    /\ Moves(t, "cleanup", "select", 0)
    /\ UNCHANGED <<running, my_school_id, message_queue, guard, pclock, disc,
                   snd, cln, ivars, cancel_token, cancelled>>

\* heartbeat_loop: the peers are copied under the state mutex
HeartbeatCopy(t) ==
    /\ t \in DOMAIN spawned
    /\ spawned[t]["heartbeat"].pc = "work"
    /\ guard = "free"
    /\ LET online == {id \in DOMAIN peers : peers[id].isOnline}
       IN  IF online = {}
           THEN Moves(t, "heartbeat", "select", 0)
           ELSE Moves(t, "heartbeat", "ping", Cardinality(online))
    /\ emitted' = <<>>
    /\ UNCHANGED <<running, my_school_id, peers, message_queue, guard, pclock,
                   disc, snd, cln, ivars, cancel_token, cancelled>>

\* heartbeat_loop: the ping of the next peer; my_user_id and send_udp_message
\* each lock the state mutex
HeartbeatPing(t) ==
    /\ t \in DOMAIN spawned
    /\ spawned[t]["heartbeat"].pc = "ping"
    /\ guard = "free"
    /\ LET left == spawned[t]["heartbeat"].left - 1
       IN  IF left = 0
           THEN Moves(t, "heartbeat", "select", 0)
           ELSE Moves(t, "heartbeat", "ping", left)
    /\ emitted' = <<>>
    /\ UNCHANGED <<running, my_school_id, peers, message_queue, guard, pclock,
                   disc, snd, cln, ivars, cancel_token, cancelled>>

\* select! takes the branch of token.cancelled(): the task returns
TaskExit(t, kind) ==
    /\ t \in DOMAIN spawned
    /\ spawned[t][kind].pc = "select"
    /\ t \in cancelled
    /\ Moves(t, kind, "exited", 0)
    /\ UNCHANGED <<pvars, ivars, cancel_token, cancelled>>

\* everything outside the message store, and everything outside the upload
\* store
notStream == <<tvars, bvars, pvars, ovars, ivars, hvars, kvars>>
notTus == <<svars, bvars, pvars, ovars, ivars, hvars, kvars>>

\* everything outside the message log and its readers, and everything
\* outside the peer fabric
notLive == <<tvars, pvars, ovars, ivars, hvars, kvars>>
notPeers == <<svars, tvars, bvars, ovars, ivars, hvars, kvars>>

\* everything outside the upload store and the request it took last
notTusRequest == <<svars, bvars, pvars, ivars, hvars, kvars>>

\* everything outside the peer fabric and the messages coming in
notIncoming == <<svars, tvars, bvars, ovars, hvars, kvars>>

\* everything outside the discovery hub
notHub == <<svars, tvars, bvars, pvars, ovars, ivars, kvars>>

\* everything outside the peer fabric, the messages coming in and the tasks
notTasks == <<svars, tvars, bvars, ovars, hvars>>

\* the upload server handling one PATCH or POST at a time, with HEAD and DELETE
\* requests arriving at any moment
NextTus ==
    \/ \E id \in UploadIds, length \in 0..(TusMaxSize + 1), filename \in FileNames,
          n \in 0..MaxChunk, hdr \in {"ok", "no_number"} :
           \E csum \in ChecksumHeaders(Bytes(1, n)) :
               HandleCreate(1, id, length, filename, n, csum, hdr)
                   /\ UNCHANGED notTus
    \/ \E id \in UploadIds, hdr \in {"ok", "no_tus"} :
           HandleHead(id, hdr) /\ UNCHANGED notTus
    \/ \E id \in UploadIds, hdr \in {"ok", "no_tus"} :
           HandleDelete(id, hdr) /\ UNCHANGED notTus
    \/ \E id \in UploadIds, offset \in 0..MaxUploadOffset, n \in 0..MaxChunk,
          hdr \in HeaderCases :
           \E csum \in ChecksumHeaders(Bytes(1, n)) :
               HandlePatch(1, id, offset, n, csum, hdr) /\ UNCHANGED notTus
    \/ WriteChunkCheck(1) /\ UNCHANGED notTus
    \/ WriteChunkWrite(1) /\ UNCHANGED notTus
    \/ WriteChunkUpdate(1) /\ UNCHANGED notTus
    \/ FinalizeRename(1) /\ UNCHANGED notTus
    \/ FinalizeRemoveMeta(1) /\ UNCHANGED notTus
    \/ FinalizeSetPath(1) /\ UNCHANGED notTus
    \/ WriteChunkSnapshot(1) /\ UNCHANGED notTus
    \/ WriteChunkSave(1) /\ UNCHANGED notTus
    \/ RespondComplete(1) /\ UNCHANGED notTus

\* the upload server handling PATCH requests of several tasks at once; the
\* requests carry valid headers and no checksum, the uploads no file name
NextTusRace ==
    \/ \E id \in UploadIds, length \in 0..TusMaxSize :
           HandleCreate(1, id, length, <<>>, 0, <<>>, "ok") /\ UNCHANGED notTus
    \/ \E w \in Workers, id \in UploadIds, offset \in 0..MaxUploadOffset,
          n \in 0..MaxChunk :
           HandlePatch(w, id, offset, n, <<>>, "ok") /\ UNCHANGED notTus
    \/ \E w \in Workers : WriteChunkCheck(w) /\ UNCHANGED notTus
    \/ \E w \in Workers : WriteChunkWrite(w) /\ UNCHANGED notTus
    \/ \E w \in Workers : WriteChunkUpdate(w) /\ UNCHANGED notTus
    \/ \E w \in Workers : FinalizeRename(w) /\ UNCHANGED notTus
    \/ \E w \in Workers : FinalizeRemoveMeta(w) /\ UNCHANGED notTus
    \/ \E w \in Workers : FinalizeSetPath(w) /\ UNCHANGED notTus
    \/ \E w \in Workers : WriteChunkSnapshot(w) /\ UNCHANGED notTus
    \/ \E w \in Workers : WriteChunkSave(w) /\ UNCHANGED notTus
    \/ \E w \in Workers : RespondComplete(w) /\ UNCHANGED notTus

\* the uploads of two clients
TwoUploads == {"u1", "u2"}

\* two file names that sanitize_filename maps to the same name, and none
CollidingNames == {<<>>, <<<<"a">>>>, <<<<"@", "a">>>>}

\* two uploads, each sent by its own task in chunks of one byte
NextTusTwo ==
    \/ \E w \in Workers, id \in TwoUploads, filename \in CollidingNames :
           /\ id = (IF w = 1 THEN "u1" ELSE "u2")
           /\ HandleCreate(w, id, 1, filename, 0, <<>>, "ok")
           /\ UNCHANGED notTus
    \/ \E w \in Workers, id \in TwoUploads, offset \in 0..1 :
           /\ id = (IF w = 1 THEN "u1" ELSE "u2")
           /\ HandlePatch(w, id, offset, 1, <<>>, "ok")
           /\ UNCHANGED notTus
    \/ \E w \in Workers : WriteChunkCheck(w) /\ UNCHANGED notTus
    \/ \E w \in Workers : WriteChunkWrite(w) /\ UNCHANGED notTus
    \/ \E w \in Workers : WriteChunkUpdate(w) /\ UNCHANGED notTus
    \/ \E w \in Workers : FinalizeRename(w) /\ UNCHANGED notTus
    \/ \E w \in Workers : FinalizeRemoveMeta(w) /\ UNCHANGED notTus
    \/ \E w \in Workers : FinalizeSetPath(w) /\ UNCHANGED notTus
    \/ \E w \in Workers : RespondComplete(w) /\ UNCHANGED notTus

\* an upload sent by task 1, and PATCH requests for it that task 2 receives
\* once the upload is complete
NextTusLate ==
    \/ \E id \in UploadIds, length \in 1..TusMaxSize, filename \in FileNames :
           HandleCreate(1, id, length, filename, 0, <<>>, "ok") /\ UNCHANGED notTus
    \/ \E id \in UploadIds, offset \in 0..MaxUploadOffset, n \in 0..MaxChunk :
           HandlePatch(1, id, offset, n, <<>>, "ok") /\ UNCHANGED notTus
    \/ \E id \in UploadIds, offset \in 0..MaxUploadOffset, n \in 0..MaxChunk :
           \E csum \in ChecksumHeaders(Bytes(2, n)) :
               /\ id \in DOMAIN uploads
               /\ uploads[id].is_complete
               /\ HandlePatch(2, id, offset, n, csum, "ok")
               /\ UNCHANGED notTus
    \/ \E w \in Workers : WriteChunkCheck(w) /\ UNCHANGED notTus
    \/ \E w \in Workers : WriteChunkWrite(w) /\ UNCHANGED notTus
    \/ \E w \in Workers : WriteChunkUpdate(w) /\ UNCHANGED notTus
    \/ \E w \in Workers : FinalizeRename(w) /\ UNCHANGED notTus
    \/ \E w \in Workers : FinalizeRemoveMeta(w) /\ UNCHANGED notTus
    \/ \E w \in Workers : FinalizeSetPath(w) /\ UNCHANGED notTus
    \/ \E w \in Workers : WriteChunkSnapshot(w) /\ UNCHANGED notTus
    \/ \E w \in Workers : WriteChunkSave(w) /\ UNCHANGED notTus
    \/ \E w \in Workers : RespondComplete(w) /\ UNCHANGED notTus

\* the same, with the process restarting at any moment
NextTusRestart ==
    \/ NextTusRace
    \/ Restart /\ UNCHANGED notTus

\* header values a client may send for If-Match / If-None-Match
EtagHeaders ==
    {None, "*", etag, GenerateEtag(current_offset + 1, total_bytes)}

\* the operations of the default message log, called one after another
NextStream ==
    \/ Tick /\ UNCHANGED notStream
    \/ \E id \in MsgIds, payload \in Payloads :
           StoreAppend(id, payload, "a", "b") /\ UNCHANGED notStream
    \/ \E id \in MsgIds : DeleteMessage(id) /\ UNCHANGED notStream
    \/ CleanupOldMessages /\ UNCHANGED notStream
    \/ \E im \in EtagHeaders, inm \in EtagHeaders :
           HandleGetMessagesRange(im, inm, 0, <<>>, 1) /\ UNCHANGED notStream

\* the operations on named streams, with appends to the log in between
NextNamed ==
    \/ \E id \in MsgIds, payload \in Payloads :
           StoreAppend(id, payload, "a", "b") /\ UNCHANGED notStream
    \/ \E p \in Paths, inm \in {None, "*"}, m \in Modes :
           HandleCreateStream(p, inm, m) /\ UNCHANGED notStream
    \/ \E p \in Paths, inm \in {None, "*", GenerateEtag(0, 0), etag} :
           HandleGetStream(p, inm) /\ UNCHANGED notStream
    \/ \E p \in Paths, im \in {None, "*", GenerateEtag(0, 0), etag} :
           HandleDeleteStream(p, im) /\ UNCHANGED notStream

\* several tasks appending to the message log at once, one receiver listening
NextAppendRace ==
    \/ Subscribe /\ UNCHANGED notLive
    \/ \E t \in Appenders, id \in MsgIds :
           AppendAssign(t, id, "7", "a", "b") /\ UNCHANGED notLive
    \/ \E t \in Appenders : AppendInsert(t) /\ UNCHANGED notLive
    \/ \E t \in Appenders : AppendBytes(t) /\ UNCHANGED notLive
    \/ \E t \in Appenders : AppendEtag(t) /\ UNCHANGED notLive
    \/ \E t \in Appenders : AppendSend(t) /\ UNCHANGED notLive

\* the operations of the message log, called one after another, and restarts
\* of the process in between
NextStreamRestart ==
    \/ Tick /\ UNCHANGED notStream
    \/ \E id \in MsgIds, payload \in Payloads :
           StoreAppend(id, payload, "a", "b") /\ UNCHANGED notStream
    \/ \E id \in MsgIds : DeleteMessage(id) /\ UNCHANGED notStream
    \/ CleanupOldMessages /\ UNCHANGED notStream
    \/ StoreRestart /\ UNCHANGED notLive

\* sender and recipient of the messages appended next to a reader
Parties == {<<"a", "b">>, <<"b", "b">>}

\* offsets a client may send: none, or a number
SomeOffsets == {<<>>} \cup {<<n>> : n \in 0..(MaxOffset - 1)}

\* one SSE connection next to tasks appending to the message log
NextSse ==
    \/ \E t \in Appenders, id \in MsgIds, p \in Parties :
           AppendAssign(t, id, "7", p[1], p[2]) /\ UNCHANGED notLive
    \/ \E t \in Appenders : AppendInsert(t) /\ UNCHANGED notLive
    \/ \E t \in Appenders : AppendBytes(t) /\ UNCHANGED notLive
    \/ \E t \in Appenders : AppendEtag(t) /\ UNCHANGED notLive
    \/ \E t \in Appenders : AppendSend(t) /\ UNCHANGED notLive
    \/ \E with_user \in {None, "b"}, query_offset \in SomeOffsets,
          last_event_id \in SomeOffsets :
           HandleSseStream("a", with_user, query_offset, last_event_id)
               /\ UNCHANGED notLive
    \/ SseConnected /\ UNCHANGED notLive
    \/ SseCatchUp /\ UNCHANGED notLive
    \/ SseSubscribe /\ UNCHANGED notLive
    \/ SseRecv /\ UNCHANGED notLive
    \/ SseHeartbeat /\ UNCHANGED notLive

\* one long-poll request next to tasks appending to the message log
NextLongPoll ==
    \/ \E t \in Appenders, id \in MsgIds, p \in Parties :
           AppendAssign(t, id, "7", p[1], p[2]) /\ UNCHANGED notLive
    \/ \E t \in Appenders : AppendInsert(t) /\ UNCHANGED notLive
    \/ \E t \in Appenders : AppendBytes(t) /\ UNCHANGED notLive
    \/ \E t \in Appenders : AppendEtag(t) /\ UNCHANGED notLive
    \/ \E t \in Appenders : AppendSend(t) /\ UNCHANGED notLive
    \/ \E with_user \in {None, "b"}, offset \in 0..(MaxOffset - 1),
          timeout_secs \in PollTimeouts :
           HandleLongPoll("a", with_user, offset, timeout_secs) /\ UNCHANGED notLive
    \/ PollQuery /\ UNCHANGED notLive
    \/ PollSubscribe /\ UNCHANGED notLive
    \/ PollRecv /\ UNCHANGED notLive
    \/ PollElapse /\ UNCHANGED notLive
    \/ PollTimeout /\ UNCHANGED notLive

\* datagrams the discovery hub may receive
Datagram(type, peer_id, user_id, school_id) ==
    [type |-> type, peerId |-> peer_id, userId |-> user_id, schoolId |-> school_id]

\* datagrams the discovery hub may receive: announcements of the peers, and
\* datagrams of another type, without a peer id, without a user id, or sent
\* by this node itself
Datagrams ==
    {Datagram(type, <<id>>, <<"a">>, school_id) :
         type \in {"discovery", "discovery-response"}, id \in PeerIds,
         school_id \in SchoolIds}
    \cup {Datagram("chat", <<"p1">>, <<"a">>, <<>>),
          Datagram("discovery", <<>>, <<"a">>, <<>>),
          Datagram("discovery", <<"p1">>, <<>>, <<>>),
          Datagram("discovery", <<MyPeerId>>, <<"a">>, <<>>)}

\* the peer fabric: start and stop, datagrams handled by the hub one after
\* another, and one task sending messages
NextPeers ==
    \/ \E school_id \in SchoolIds : Start(school_id) /\ UNCHANGED notPeers
    \/ Stop /\ UNCHANGED notPeers
    \/ \E dgram \in Datagrams : HandleDiscoveryMessage(dgram) /\ UNCHANGED notPeers
    \/ DiscRespond /\ UNCHANGED notPeers
    \/ DiscDrainTake /\ UNCHANGED notPeers
    \/ DiscSendNext /\ UNCHANGED notPeers
    \/ DiscReturn /\ UNCHANGED notPeers
    \/ \E msg \in MsgIds : SendToPeer("a", msg) /\ UNCHANGED notPeers
    \/ SendTcp /\ UNCHANGED notPeers
    \/ SendUdp /\ UNCHANGED notPeers
    \/ SendQueue /\ UNCHANGED notPeers
    \/ SendReturn /\ UNCHANGED notPeers

\* announcements of the peers of the default school
Announcements ==
    {Datagram(type, <<id>>, <<"a">>, <<>>) :
         type \in {"discovery", "discovery-response"}, id \in PeerIds}

\* presence: peers announce themselves and answer pings, time passes, and the
\* cleanup task sweeps the peer table
NextPresence ==
    \/ Start(<<>>) /\ UNCHANGED notPeers
    \/ \E dgram \in Announcements :
           HandleDiscoveryMessage(dgram) /\ UNCHANGED notPeers
    \/ DiscRespond /\ UNCHANGED notPeers
    \/ DiscDrainTake /\ UNCHANGED notPeers
    \/ UpdatePeerPresence("a") /\ UNCHANGED notPeers
    \/ PeerTick /\ UNCHANGED notPeers
    \/ CleanupSweep /\ UNCHANGED notPeers
    \/ CleanupWait /\ UNCHANGED notPeers

\* the upload server, one PATCH or POST at a time, with the request it took
\* last on record
NextTusErrors ==
    \/ \E id \in UploadIds, length \in 0..(TusMaxSize + 1), n \in 0..1,
          hdr \in {"ok", "no_tus", "no_number"} :
           HandleCreate(1, id, length, <<>>, n, <<>>, hdr)
               /\ TusRequest("post", id, hdr, length)
               /\ UNCHANGED notTusRequest
    \/ \E id \in UploadIds, hdr \in {"ok", "no_tus"} :
           HandleHead(id, hdr) /\ TusRequest("head", id, hdr, 0)
               /\ UNCHANGED notTusRequest
    \/ \E id \in UploadIds, hdr \in {"ok", "no_tus"} :
           HandleDelete(id, hdr) /\ TusRequest("delete", id, hdr, 0)
               /\ UNCHANGED notTusRequest
    \/ \E id \in UploadIds, offset \in 0..MaxUploadOffset, n \in 0..MaxChunk,
          hdr \in HeaderCases :
           \E csum \in ChecksumHeaders(Bytes(1, n)) :
               HandlePatch(1, id, offset, n, csum, hdr)
                   /\ TusRequest("patch", id, hdr, 0)
                   /\ UNCHANGED notTusRequest
    \/ WriteChunkCheck(1) /\ UNCHANGED notTus
    \/ WriteChunkWrite(1) /\ UNCHANGED notTus
    \/ WriteChunkUpdate(1) /\ UNCHANGED notTus
    \/ FinalizeRename(1) /\ UNCHANGED notTus
    \/ FinalizeRemoveMeta(1) /\ UNCHANGED notTus
    \/ FinalizeSetPath(1) /\ UNCHANGED notTus
    \/ WriteChunkSnapshot(1) /\ UNCHANGED notTus
    \/ WriteChunkSave(1) /\ UNCHANGED notTus
    \/ RespondComplete(1) /\ UNCHANGED notTus

\* messages coming in from the peers of the default school, next to their
\* discovery datagrams
NextIncoming ==
    \/ StartAs(LocalUser, <<>>) /\ UNCHANGED notIncoming
    \/ HandleDiscoveryMessage(Datagram("discovery", <<"p1">>, <<"a">>, <<>>))
           /\ UNCHANGED notPeers
    \/ DiscRespond /\ UNCHANGED notPeers
    \/ DiscDrainTake /\ UNCHANGED notPeers
    \/ \E m \in Messages : HandleIncomingMessage(m) /\ UNCHANGED notIncoming

\* the discovery hub: started and stopped by its callers while its receive
\* tasks run
NextHub ==
    \/ \E requested_port \in RequestedPorts :
           EnsureStarted(requested_port) /\ UNCHANGED notHub
    \/ HubStop /\ UNCHANGED notHub
    \/ \E k \in 1..MaxHubTasks : HubRecv(k) /\ UNCHANGED notHub
    \/ \E k \in 1..MaxHubTasks : HubDispatched(k) /\ UNCHANGED notHub
    \/ \E k \in 1..MaxHubTasks : HubExit(k) /\ UNCHANGED notHub

\* the background tasks of the peer fabric between start and stop, next to
\* the hub handling the announcements of peer p1
NextTasks ==
    \/ StartTasks(LocalUser, <<>>) /\ UNCHANGED notTasks
    \/ StopTasks /\ UNCHANGED notTasks
    \/ \E type \in {"discovery", "discovery-response"} :
           HandleDiscoveryMessage(Datagram(type, <<"p1">>, <<"a">>, <<>>))
               /\ UNCHANGED notPeers
    \/ DiscRespond /\ UNCHANGED notPeers
    \/ DiscDrainTake /\ UNCHANGED notPeers
    \/ \E t \in 1..MaxStarts, kind \in TaskKinds :
           TaskWake(t, kind) /\ UNCHANGED notTasks
    \/ \E t \in 1..MaxStarts : UdpWork(t) /\ UNCHANGED notTasks
    \/ \E t \in 1..MaxStarts : TcpWork(t) /\ UNCHANGED notTasks
    \/ \E t \in 1..MaxStarts : DiscoveryWork(t) /\ UNCHANGED notTasks
    \/ \E t \in 1..MaxStarts : CleanupWork(t) /\ UNCHANGED notTasks
    \/ \E t \in 1..MaxStarts : HeartbeatCopy(t) /\ UNCHANGED notTasks
    \/ \E t \in 1..MaxStarts : HeartbeatPing(t) /\ UNCHANGED notTasks
    \/ \E t \in 1..MaxStarts, kind \in TaskKinds :
           TaskExit(t, kind) /\ UNCHANGED notTasks

\* the messages a peer of user a sends to the user of this node
PeerMessages ==
    {Message(type, "a", LocalUser, "m1", "m1") :
         type \in {<<"chat">>, <<"ping">>, <<"pong">>, <<"typing">>}}

\* presence next to the messages of a peer: the peer announces itself and
\* sends messages, time passes, and the cleanup task sweeps the peer table
NextChatter ==
    \/ StartAs(LocalUser, <<>>) /\ UNCHANGED notIncoming
    \/ HandleDiscoveryMessage(Datagram("discovery", <<"p1">>, <<"a">>, <<>>))
           /\ UNCHANGED notPeers
    \/ DiscRespond /\ UNCHANGED notPeers
    \/ DiscDrainTake /\ UNCHANGED notPeers
    \/ \E m \in PeerMessages : HandleIncomingMessage(m) /\ UNCHANGED notIncoming
    \/ PeerTick /\ UNCHANGED notPeers
    \/ CleanupSweep /\ UNCHANGED notPeers
    \/ CleanupWait /\ UNCHANGED notPeers

\* files offered to user a, one offer at a time
NextOffer ==
    \/ StartAs(LocalUser, <<>>) /\ UNCHANGED notIncoming
    \/ HandleDiscoveryMessage(Datagram("discovery", <<"p1">>, <<"a">>, <<>>))
           /\ UNCHANGED notPeers
    \/ DiscRespond /\ UNCHANGED notPeers
    \/ DiscDrainTake /\ UNCHANGED notPeers
    \/ DiscSendNext /\ UNCHANGED notPeers
    \/ DiscReturn /\ UNCHANGED notPeers
    \/ \E file_size \in FileSizes : OfferFile("a", file_size) /\ UNCHANGED notIncoming
    \/ SendTcp /\ UNCHANGED notPeers
    \/ SendUdp /\ UNCHANGED notPeers
    \/ SendQueue /\ UNCHANGED notPeers
    \/ SendReturn /\ UNCHANGED notPeers

vars == <<svars, tvars, bvars, pvars, ovars, ivars, hvars, kvars>>

Init ==
    /\ InitStream /\ InitTus /\ InitLive /\ InitPeers /\ InitObserved
    /\ InitIncoming /\ InitHub /\ InitTasks

\* the message store under sequential calls
SpecStream == Init /\ [][NextStream]_vars

\* named streams next to the message log
SpecNamed == Init /\ [][NextNamed]_vars

\* the upload server, one PATCH or POST at a time
SpecTus == Init /\ [][NextTus]_vars

\* the upload server, one PATCH or POST at a time, requests on record
SpecTusErrors == Init /\ [][NextTusErrors]_vars

\* messages coming in from the peers
SpecIncoming == Init /\ [][NextIncoming]_vars

\* the discovery hub
SpecHub == Init /\ [][NextHub]_vars

\* the background tasks scheduled as tokio schedules them: a task that can
\* go on is polled again (the hub's task included), and a select! whose
\* token.cancelled() branch is ready again and again takes it in the end (the
\* branch is chosen at random among the ready ones)
FairTasks ==
    /\ WF_vars(DiscRespond /\ UNCHANGED notPeers)
    /\ WF_vars(DiscDrainTake /\ UNCHANGED notPeers)
    /\ \A t \in 1..MaxStarts :
           /\ WF_vars(UdpWork(t) /\ UNCHANGED notTasks)
           /\ WF_vars(TcpWork(t) /\ UNCHANGED notTasks)
           /\ WF_vars(DiscoveryWork(t) /\ UNCHANGED notTasks)
           /\ WF_vars(CleanupWork(t) /\ UNCHANGED notTasks)
           /\ WF_vars(HeartbeatCopy(t) /\ UNCHANGED notTasks)
           /\ WF_vars(HeartbeatPing(t) /\ UNCHANGED notTasks)
           /\ \A kind \in TaskKinds :
                  SF_vars(TaskExit(t, kind) /\ UNCHANGED notTasks)

SpecTasksFair == Init /\ [][NextTasks]_vars /\ FairTasks

\* presence next to the messages of a peer
SpecChatter == Init /\ [][NextChatter]_vars

\* files offered to a peer
SpecOffer == Init /\ [][NextOffer]_vars

\* the upload server, two uploads
SpecTusTwo == Init /\ [][NextTusTwo]_vars

\* the upload server, PATCH requests after completion
SpecTusLate == Init /\ [][NextTusLate]_vars

\* the upload server, concurrent PATCH requests
SpecTusRace == Init /\ [][NextTusRace]_vars

\* the upload server, concurrent PATCH requests and process restarts
SpecTusRestart == Init /\ [][NextTusRestart]_vars

\* the message log under sequential calls and process restarts
SpecStreamRestart == Init /\ [][NextStreamRestart]_vars

\* the message log under concurrent appends
SpecAppendRace == Init /\ [][NextAppendRace]_vars

\* a long-poll request next to concurrent appends
SpecLongPoll == Init /\ [][NextLongPoll]_vars

\* presence of the peers and the cleanup sweep
SpecPresence == Init /\ [][NextPresence]_vars

\* the peer fabric
SpecPeers == Init /\ [][NextPeers]_vars

\* the peer fabric with the hub's task scheduled whenever it can run: tokio
\* polls a task again once what it awaits is ready
FairDiscovery ==
    /\ WF_vars(DiscRespond /\ UNCHANGED notPeers)
    /\ WF_vars(DiscDrainTake /\ UNCHANGED notPeers)
    /\ WF_vars(DiscSendNext /\ UNCHANGED notPeers)
    /\ WF_vars(DiscReturn /\ UNCHANGED notPeers)

SpecPeersFair == Init /\ [][NextPeers]_vars /\ FairDiscovery

\* an SSE connection next to concurrent appends
SpecSse == Init /\ [][NextSse]_vars

(***************************************************************************)
(* Claims about the message store                                          *)
(***************************************************************************)

\* C1: in any sequence of append calls, some of which may fail at the
\* INSERT, each successful append returns exactly the offset of the previous
\* successful append plus 1 (strictly increasing, no gaps).
C1_ConsecutiveOffsets ==
    [][lastOk' # lastOk => lastOk' = lastOk + 1]_vars

\* C2: after every completed store operation (an append that succeeds or
\* fails, delete_message, cleanup_old_messages) the in-memory etag is the
\* quoted "current_offset:total_bytes" of the in-memory counters.
C2_EtagOfCounters ==
    etag = GenerateEtag(current_offset, total_bytes)

\* C3: for one upload, under any interleaving of PATCH requests, the offset of
\* the record never decreases (stated for the steps that start from an
\* incomplete upload whose offset is within its length)
C3_OffsetNeverDecreases ==
    [][\A id \in DOMAIN uploads \cap DOMAIN uploads' :
           (~uploads[id].is_complete /\ uploads[id].offset <= uploads[id].length)
               => uploads'[id].offset >= uploads[id].offset]_vars

\* C4: a PATCH whose Upload-Offset differs from the offset of the upload is
\* answered 409 and leaves the record, the partial file and the sidecar as
\* they were, from the arrival of the request to its answer
C4_WrongOffsetRejected ==
    [][\A w \in Workers :
           /\ (req[w].pc = "idle" /\ req'[w].pc = "check" /\ req'[w].op = "patch")
                  => UNCHANGED <<uploads, partial, sidecar, complete>>
           /\ ( /\ req[w].pc = "check" /\ req'[w].pc # "check"
                /\ req[w].op = "patch"
                /\ req[w].id \in DOMAIN uploads
                /\ req[w].offset # uploads[req[w].id].offset )
                  => /\ req'[w].pc = "idle"
                     /\ tresp'.op = "patch" /\ tresp'.status = 409
                     /\ UNCHANGED <<uploads, partial, sidecar, complete>>]_vars

\* C4 witness: a 409 answer to a PATCH of an existing upload at another offset
\* than the one the record holds
C4_Witness ==
    /\ tresp.op = "patch" /\ tresp.status = 409
    /\ tresp.id \in DOMAIN uploads
    /\ uploads[tresp.id].offset > 0
    /\ tresp.offset # uploads[tresp.id].offset

\* C5: a PATCH at the offset of the upload with a wrong Upload-Checksum is
\* answered 417 before anything is written, offset and partial file unchanged;
\* with the right Upload-Checksum it succeeds (204) while the upload exists
C5_ChecksumDecides ==
    [][\A w \in Workers :
           /\ ( /\ req[w].pc = "check" /\ req'[w].pc # "check"
                /\ req[w].op = "patch"
                /\ req[w].id \in DOMAIN uploads
                /\ req[w].offset = uploads[req[w].id].offset
                /\ ChecksumKind(req[w].csum, req[w].data) = "invalid" )
                  => /\ tresp'.status = 417
                     /\ UNCHANGED <<uploads, partial, sidecar, complete>>
           /\ ( /\ req[w].pc \notin {"idle", "check"} /\ req'[w].pc = "idle"
                /\ req[w].op = "patch"
                /\ req[w].id \in DOMAIN uploads
                /\ ChecksumKind(req[w].csum, req[w].data) = "valid" )
                  => /\ tresp'.status = 204
                     /\ uploads'[req[w].id].offset
                            = req[w].offset + Len(req[w].data)]_vars

\* C6: in every state, an upload whose is_complete is true has its final file
\* under complete/ and neither a partial file nor a sidecar under partial/
C6_AtomicFinalization ==
    \A id \in DOMAIN uploads :
        uploads[id].is_complete
            => /\ SafeFilename(id, uploads[id]) \in DOMAIN complete
               /\ id \notin DOMAIN partial
               /\ id \notin DOMAIN sidecar

\* C7: in every state of every upload record, 0 <= offset <= length, and
\* is_complete implies that final_path is set and offset = length
C7_OffsetWithinLength ==
    \A id \in DOMAIN uploads :
        /\ 0 <= uploads[id].offset
        /\ uploads[id].offset <= uploads[id].length
        /\ uploads[id].is_complete
               => /\ uploads[id].final_path # <<>>
                  /\ uploads[id].offset = uploads[id].length

\* C8: after a restart, every upload that was incomplete before it is present
\* again, incomplete, with the offset its last successful PATCH left in the
\* record (0 after the create), and its partial file is there for a PATCH at
\* that offset (stated for the restarts that happen while no request is being
\* handled)
C8_RecoveredAtLastOffset ==
    [][(epoch' # epoch /\ \A w \in Workers : req[w].pc = "idle") =>
           \A id \in DOMAIN uploads :
               ~uploads[id].is_complete
                   => /\ id \in DOMAIN uploads'
                      /\ ~uploads'[id].is_complete
                      /\ uploads'[id].offset = uploads[id].offset
                      /\ id \in DOMAIN partial']_vars

\* C9: GET /messages answers 412 when If-Match is present, is not "*" and
\* differs from the current etag; otherwise 304 when If-None-Match is "*" or
\* equals the current etag; both without a body and without reading
\* messages; otherwise it proceeds to the range read.
C9_ConditionalGetMessages ==
    sresp.op = "get_messages" =>
        LET failed   == /\ sresp.if_match # None
                        /\ sresp.if_match # "*"
                        /\ sresp.if_match # etag
            notMod   == /\ ~failed
                        /\ sresp.if_none_match \in {"*", etag}
        IN  /\ sresp.status = 412 <=> failed
            /\ sresp.status = 304 <=> notMod
            /\ (failed \/ notMod) => sresp.body = {}
            /\ ~(failed \/ notMod) =>
                   /\ sresp.status \in {200, 206}
                   /\ sresp.body = {GetRange(0, <<>>, 1)}

\* C9 witness: a GET carrying both headers equal to the etag of a non-empty
\* log was answered 304.
C9_Witness ==
    /\ sresp.op = "get_messages"
    /\ current_offset > 0
    /\ sresp.if_match = etag
    /\ sresp.if_none_match = etag
    /\ sresp.status = 304

\* C10: a GET /streams/{path} with If-None-Match equal to the ETag returned
\* by the previous GET yields 304 while nothing has been appended, and after
\* an append it yields 200 with a different ETag.
C10_ConditionalGetStream ==
    [][\A p \in Paths :
          ( /\ sresp'.op = "get_stream"
            /\ sresp'.body = {p}
            /\ p \in DOMAIN streams
            /\ seenEtag[p] # None
            /\ sresp'.if_none_match = seenEtag[p] )
          => IF appendedSince[p]
             THEN sresp'.status = 200 /\ sresp'.etag # seenEtag[p]
             ELSE sresp'.status = 304]_vars

\* C11: when several tasks append concurrently, a receiver that has not
\* lagged is handed the messages in strictly increasing offset order
C11_BroadcastInOffsetOrder ==
    \A i \in 1..Len(sub.q), j \in 1..Len(sub.q) :
        i < j => sub.q[i].offset < sub.q[j].offset

\* C12: across append, delete_message, cleanup_old_messages and restarts of
\* the store, a successful append is never given an offset that an earlier
\* one was given, and current_offset never falls below an assigned offset
C12_OffsetsNeverReused ==
    [][/\ ( /\ sresp'.op = "append" /\ sresp'.status = 200
            /\ current_offset' # current_offset )
              => sresp'.offset > lastOk
       /\ current_offset' >= lastOk]_vars

\* C13: delete_message(id) of a stored message removes exactly that row, takes
\* its byte_size off total_bytes, recomputes the etag and leaves
\* current_offset and every other row alone; for an unknown id it returns
\* false and changes nothing
C13_DeleteMessageFrame ==
    [][\A id \in MsgIds :
           ( /\ sresp'.op = "delete_message" /\ now' = now
             /\ \E d \in BOOLEAN : sresp'.body = {[id |-> id, deleted |-> d]} )
               => /\ current_offset' = current_offset
                  /\ IF \E r \in messages : r.id = id
                     THEN \E r \in messages :
                            /\ r.id = id
                            /\ messages' = messages \ {r}
                            /\ total_bytes' = total_bytes - r.byte_size
                            /\ etag' = GenerateEtag(current_offset, total_bytes')
                            /\ sresp'.body = {[id |-> id, deleted |-> TRUE]}
                     ELSE /\ sresp'.body = {[id |-> id, deleted |-> FALSE]}
                          /\ UNCHANGED <<messages, total_bytes, etag>>]_vars

\* C13 witness: a message was deleted while another one stays in the log
C13_Witness ==
    /\ sresp.op = "delete_message"
    /\ \E id \in MsgIds : sresp.body = {[id |-> id, deleted |-> TRUE]}
    /\ messages # {}
    /\ total_bytes > 0

\* bound on the limit of a range read
MaxLimit == 2

\* C14: get_range(range, limit) returns the rows with offset > range.start in
\* ascending order, the first `limit` of them; end_offset is the last offset
\* returned (range.start when none is); has_more holds exactly when
\* end_offset is below the requested end (range.end, or current_offset when
\* there is none, and never above current_offset); GET /messages answers 206
\* exactly when has_more holds and 200 otherwise
C14_GetRange ==
    /\ \A start \in 0..MaxOffset, limit \in 0..MaxLimit,
          end \in {<<>>} \cup {<<n>> : n \in 0..(MaxOffset + 1)} :
           LET d         == GetRange(start, end, limit)
               above     == {r \in messages : r.offset > start}
               n         == Len(d.messages)
               returned  == {d.messages[i] : i \in 1..n}
               requested == IF end = <<>> THEN current_offset
                            ELSE Min(end[1], current_offset)
           IN  /\ n = Min(limit, Cardinality(above))
               /\ returned \subseteq above
               /\ \A i \in 1..n, j \in 1..n :
                      i < j => d.messages[i].offset < d.messages[j].offset
               /\ \A r \in above \ returned, q \in returned : q.offset < r.offset
               /\ d.end_offset = IF n = 0 THEN start ELSE d.messages[n].offset
               /\ d.has_more <=> d.end_offset < requested
    /\ (sresp.op = "get_messages" /\ sresp.body # {})
           => \A d \in sresp.body :
                  /\ sresp.status = 206 <=> d.has_more
                  /\ sresp.status = 200 <=> ~d.has_more

\* C14 witness: a GET that returned one of two stored messages with 206
C14_Witness ==
    /\ sresp.op = "get_messages" /\ sresp.status = 206
    /\ Cardinality(messages) = 2
    /\ \E d \in sresp.body : Len(d.messages) = 1 /\ d.has_more

\* C15: the first event of an SSE connection is `connected` with the current
\* offset; when the client sent Last-Event-ID or ?offset= (Last-Event-ID first,
\* any value, 0 included), the stored messages of its scope with a greater
\* offset follow as `message` events in ascending offset order, each with its
\* offset as id, and only then are live messages emitted
C15_SseCatchUpBeforeLive ==
    [][/\ (sse.pc = "connected" /\ sse'.pc = "catchup")
              => sse'.events = <<ConnectedEvent(current_offset)>>
       /\ (sse.pc = "catchup" /\ sse'.pc = "subscribe" /\ sse.given)
              => LET stored == SortByOffset({r \in messages :
                                   /\ r.offset > sse.eff
                                   /\ InScope(r, sse.user, sse.with_user)})
                 IN  /\ sse'.events = sse.events \o
                            [i \in 1..Len(stored) |->
                                [event |-> "message",
                                 id |-> ToString(stored[i].offset),
                                 msg |-> <<stored[i]>>]]
                     /\ \A i \in 1..Len(stored), j \in 1..Len(stored) :
                            i < j => stored[i].offset < stored[j].offset
       /\ (sse.pc # "live" /\ sse'.pc # "live") => sse'.q = <<>>]_vars

\* the stored messages a long-poll request may see: in its scope, above its
\* offset, in ascending offset order
PollStored ==
    SortByOffset({r \in messages :
                     r.offset > poll.offset /\ InScope(r, poll.user, poll.with_user)})

\* what C16 says of the waiting part of a long-poll: a received message that
\* does not match is passed over; the first that matches is the answer, with
\* next_offset its offset; the request waits no longer than
\* min(timeout_secs, 60) seconds and, when nothing matching was received by
\* then, answers with an empty list and next_offset = o
PollWaitContract ==
    /\ (poll.pc = "wait" /\ poll'.pc = "wait" /\ Len(poll'.q) < Len(poll.q))
           => ~PollMatch(Head(poll.q))
    /\ (poll.pc = "wait" /\ poll'.pc = "done")
           => IF poll'.resp[1].messages # <<>>
              THEN /\ PollMatch(Head(poll.q))
                   /\ poll'.resp[1].messages = <<Head(poll.q)>>
                   /\ poll'.resp[1].next_offset = Head(poll.q).offset
              ELSE /\ \A i \in 1..Len(poll.q) : ~PollMatch(poll.q[i])
                   /\ poll.waited = Min(poll.timeout_secs, MaxPollSecs)
                   /\ poll'.resp[1].next_offset = poll.offset
    /\ poll'.pc = "wait" => poll'.waited <= Min(poll'.timeout_secs, MaxPollSecs)

C18_SendOutcome ==
    [][/\ (snd.pc # "done" /\ snd'.pc = "done")
              => /\ snd'.outcome \in {"tcp", "udp", "queued"}
                 /\ snd'.outcome = "tcp"
                        => /\ snd'.tcp = "ok" /\ snd'.udp = "none"
                           /\ message_queue' = message_queue
                 /\ snd'.outcome = "udp"
                        => /\ snd'.tcp = "failed" /\ snd'.udp = "ok"
                           /\ message_queue' = message_queue
                 /\ snd'.outcome = "queued"
                        => /\ \/ snd.peer = <<>> /\ snd'.tcp = "none" /\ snd'.udp = "none"
                              \/ snd'.tcp = "failed" /\ snd'.udp = "failed"
                           /\ message_queue' =
                                  Put(message_queue, snd.receiver,
                                      Append(QueueOf(snd.receiver), snd.msg))
       /\ (snd.pc = "idle" /\ snd'.pc # "idle")
              => (snd'.peer = <<>> <=> FindPeer(snd'.receiver) = {})
       /\ snd'.udp # "none" => snd'.tcp = "failed"]_vars

\* C18 witness: a call that found a peer, failed on both transports and queued
C18_Witness ==
    /\ snd.pc = "done"
    /\ snd.outcome = "queued"
    /\ snd.tcp = "failed" /\ snd.udp = "failed"
    /\ Len(QueueOf(snd.receiver)) > 0

\* C17: a message for a user that reached no peer stays in the offline queue
\* of that user, in send order; once a discovery or discovery-response
\* datagram of a peer carrying the user is handled, the whole queue is taken,
\* its messages are sent to that peer in the order they were queued, and the
\* queue of the user is empty
C17_QueueDrainedOnDiscovery ==
    /\ [][/\ (disc.pc = "drain" /\ disc'.pc # "drain")
                 => /\ disc.dgram[1].userId[1] \notin DOMAIN message_queue'
                    /\ disc'.taken = QueueOf(disc.dgram[1].userId[1])
          /\ (disc.pc = "sending" /\ disc'.pc = "sending" /\ disc' # disc)
                 => /\ disc.batch # <<>>
                    /\ \E via \in {"tcp", "udp", "lost"} :
                           disc'.out = Append(disc.out, [msg |-> Head(disc.batch),
                                                        via |-> via])
                    /\ disc'.batch = Tail(disc.batch)
          /\ (disc.pc = "sending" /\ disc'.pc = "idle")
                 => [i \in 1..Len(disc.out) |-> disc.out[i].msg] = disc.taken]_vars
    /\ \A u \in Users :
           (disc.pc \in {"respond", "drain"} /\ disc.dgram[1].userId = <<u>>)
               ~> (disc.pc \in {"idle", "sending"} /\ QueueOf(u) = <<>>)

\* the number of p2p:peer-offline events for a peer among the events of a step
OfflineEvents(events, id) ==
    Cardinality({i \in 1..Len(events) : events[i] = Event("p2p:peer-offline", id)})

\* C19: the cleanup sweep sets offline every online peer whose last_seen is
\* more than 5 minutes old and emits exactly one p2p:peer-offline event for
\* that transition; a peer that is already offline gets no further event, and
\* a peer refreshed within the last 5 minutes is never set offline
C19_OfflineOncePerTransition ==
    [][\A id \in PeerIds :
           LET was_online == id \in DOMAIN peers /\ peers[id].isOnline
               is_offline == id \in DOMAIN peers' /\ ~peers'[id].isOnline
               stale      == id \in DOMAIN peers
                             /\ pclock - peers[id].lastSeen > OfflineAfter
           IN  /\ (cln = "wait" /\ cln' = "swept" /\ was_online /\ stale)
                      => is_offline
               /\ (was_online /\ is_offline)
                      => stale /\ cln = "wait" /\ cln' = "swept"
               /\ OfflineEvents(emitted', id) =
                      IF was_online /\ is_offline THEN 1 ELSE 0]_vars

\* C19 witness: a sweep has just set a peer offline and emitted its event
C19_Witness ==
    /\ cln = "swept"
    /\ \E id \in DOMAIN peers :
           /\ ~peers[id].isOnline
           /\ pclock - peers[id].lastSeen > OfflineAfter
           /\ emitted = <<Event("p2p:peer-offline", id)>>

\* C20: in every reachable state (before start, while running, after stop,
\* after a restart with another school id) every record of the peer table has
\* the local school id; a discovery datagram of another school creates or
\* updates no record and triggers no event, no discovery-response and no
\* queue drain
C20_OneSchoolOnly ==
    [][/\ \A id \in DOMAIN peers' : peers'[id].schoolId = my_school_id'
       /\ (disc.pc = "idle" /\ disc'.pc # "idle")
              => SchoolOrDefault(disc'.dgram[1].schoolId) = my_school_id
       /\ (\E id \in PeerIds :
               \/ id \in DOMAIN peers' /\ id \notin DOMAIN peers
               \/ id \in DOMAIN peers' /\ id \in DOMAIN peers /\ peers'[id] # peers[id]
               \/ \E i \in 1..Len(emitted') :
                      /\ emitted'[i].peer = id
                      /\ emitted'[i].name \in {"p2p:peer-discovered", "p2p:peer-online"})
              => /\ disc.pc = "idle" /\ disc'.pc # "idle"
                 /\ SchoolOrDefault(disc'.dgram[1].schoolId) = my_school_id]_vars

\* C23: handling a discovery datagram never holds the state mutex while it
\* waits for an operation that locks the same mutex itself
\* (send_discovery_response, deliver_queued_messages and the sends of the
\* drain each lock it), so the handler always gets on and the mutex is
\* released for the other tasks
C23_LockReleasedBeforeLocking ==
    disc.pc \in {"respond", "drain", "sending"} => guard # "disc"

\* C26: a queued message is never lost while the service runs: it leaves the
\* offline queue only with a TCP or UDP send that succeeded; a message of the
\* drain whose TCP and UDP sends both failed is in the queue of its user again
C26_QueuedMessageKept ==
    [][(disc.pc = "sending" /\ disc'.pc = "sending" /\ disc' # disc)
           => LET user == disc.dgram[1].userId[1]
                  sent == disc'.out[Len(disc'.out)]
              IN  sent.via = "lost"
                      => /\ user \in DOMAIN message_queue'
                         /\ \E i \in 1..Len(message_queue'[user]) :
                                message_queue'[user][i] = sent.msg]_vars

\* the stored messages an SSE connection with offset k has to deliver: in its
\* scope, with an offset above k
SseDue ==
    {r \in messages : r.offset > sse.eff /\ InScope(r, sse.user, sse.with_user)}

\* C27: an SSE client that connects with offset k receives every message of
\* its scope with an offset above k exactly once, the messages appended while
\* the catch-up runs included: once every append has returned and the
\* receiver has nothing left to hand over, each such message has been yielded
\* once (k above 0 and no more such messages than one catch-up page holds)
C27_SseExactlyOnce ==
    ( /\ sse.pc = "live"
      /\ sse.q = <<>>
      /\ \A t \in Appenders : ap[t].pc = "idle"
      /\ sse.eff > 0
      /\ Cardinality(SseDue) <= PageLimit )
        => \A m \in SseDue :
               Cardinality({i \in 1..Len(sse.events) :
                               sse.events[i] = MessageEvent(m)}) = 1

\* C28: a long-poll with offset o never answers with an empty list when a
\* message of its scope with an offset above o was appended before the
\* timeout, a message appended between the database read and the
\* subscription included: when the timeout answers and every append has
\* returned, no such message is stored
C28_LongPollNoMissedAppend ==
    [][( /\ poll.pc = "wait" /\ poll'.pc = "done"
         /\ poll'.resp[1].messages = <<>>
         /\ poll.timeout_secs > 0
         /\ \A t \in Appenders : ap[t].pc = "idle" )
           => PollStored = <<>>]_vars

\* C29: a message is published only after its row is inserted (the row is
\* stored at the moment of the send); an append whose INSERT fails publishes
\* nothing, returns an error and leaves current_offset, total_bytes, the etag
\* and the stored messages as they were before the call (no other append
\* having started since the call took its offset)
C29_FailedAppendLeavesNoTrace ==
    [][\A t \in Appenders :
           /\ (ap[t].pc = "send" /\ ap'[t].pc = "idle")
                  => ap[t].msg[1] \in messages
           /\ ( /\ ap[t].pc = "insert" /\ ap'[t].pc = "idle"
                /\ current_offset = ap[t].msg[1].offset
                /\ \A u \in Appenders \ {t} : ap[u].pc = "idle" )
                  => /\ sub' = sub
                     /\ sresp'.status = 500
                     /\ messages' = messages
                     /\ total_bytes' = total_bytes
                     /\ etag' = etag
                     /\ current_offset' = ap[t].msg[1].offset - 1]_vars

\* C30: p2p:peer-discovered is emitted only when a peer id is inserted for
\* the first time; p2p:peer-online is emitted only when the isOnline flag of
\* a known peer changes from false to true, by a discovery datagram or by a
\* pong; a discovery datagram or a pong of a peer that is already online
\* refreshes its last_seen and emits no p2p:peer-online
C30_PresenceEventsOnTransition ==
    [][\A id \in PeerIds :
           /\ (\E i \in 1..Len(emitted') :
                   emitted'[i] = Event("p2p:peer-discovered", id))
                  => id \notin DOMAIN peers /\ id \in DOMAIN peers'
           /\ (\E i \in 1..Len(emitted') :
                   emitted'[i] = Event("p2p:peer-online", id))
                  => /\ id \in DOMAIN peers
                     /\ ~peers[id].isOnline
                     /\ peers'[id].isOnline]_vars

\* C22: every error of the upload server maps to one fixed status: not found
\* 404, offset mismatch 409, file too large 413, wrong content type 415,
\* missing or malformed header 400, checksum mismatch 417. HEAD and PATCH on
\* an unknown upload id with valid headers answer 404, and a POST whose
\* Upload-Length is above the configured maximum answers 413 and creates no
\* upload record, no partial file and no sidecar
C22_ErrorStatus ==
    [][/\ treq'.n # treq.n
              => /\ (treq'.hdr \in {"no_tus", "no_number"}) => tresp'.status = 400
                 /\ (treq'.hdr = "bad_content_type") => tresp'.status = 415
                 /\ (treq'.hdr = "ok" /\ treq'.op \in {"head", "patch"}
                        /\ treq'.id \notin DOMAIN uploads)
                        => /\ tresp'.status = 404
                           /\ tresp'.op = treq'.op
                           /\ UNCHANGED <<uploads, partial, sidecar, complete, req>>
                 /\ (treq'.hdr = "ok" /\ treq'.op = "post"
                        /\ treq'.length > TusMaxSize)
                        => /\ tresp'.status = 413
                           /\ UNCHANGED <<uploads, partial, sidecar, complete,
                                          created, req>>
       /\ (req[1].pc = "check" /\ req'[1].pc = "idle")
              => LET id == req[1].id
                 IN  tresp'.status =
                         IF id \notin DOMAIN uploads THEN 404
                         ELSE IF req[1].offset # uploads[id].offset THEN 409
                         ELSE 417]_vars

\* C22 witness: a POST with valid headers and an Upload-Length above the
\* maximum was answered 413 and nothing of the upload exists
C22_Witness ==
    /\ treq.op = "post" /\ treq.hdr = "ok" /\ treq.length > TusMaxSize
    /\ tresp.op = "post" /\ tresp.status = 413
    /\ treq.id \notin DOMAIN uploads \cup DOMAIN partial \cup DOMAIN sidecar

\* C21: an incoming message whose type does not start with "group_" and
\* whose receiverId is neither empty nor the local user id causes no event,
\* no write to the database, no reply and no change of state; a message
\* whose type starts with "group_" is dispatched whatever its receiverId is
C21_OnlyOwnOrGroupMessages ==
    [][inmsg'.n # inmsg.n
           => LET m     == inmsg'.msg[1]
                  group == Len(m.type) > 1 /\ m.type[1] = "group"
              IN  /\ (~group /\ m.receiverId # "" /\ m.receiverId # my_user_id)
                         => /\ emitted' = <<>>
                            /\ wire' = <<>>
                            /\ dbops' = <<>>
                            /\ UNCHANGED <<peers, file_transfers, message_queue,
                                           running, my_school_id, my_user_id>>
                  /\ group
                         => /\ emitted' = EventsOf(m)
                            /\ wire' = RepliesOf(m)
                            /\ (m.type = <<"group", "chat">>
                                   => /\ emitted' # <<>>
                                      /\ wire' # <<>>)]_vars

\* C21 witness: a chat message for another user has come in while this node
\* runs as its user and knows the sender's peer, and nothing was emitted,
\* written or sent back
C21_Witness ==
    /\ running
    /\ my_user_id = LocalUser
    /\ FindPeer("a") # {}
    /\ inmsg.msg # <<>>
    /\ inmsg.msg[1].type = <<"chat">>
    /\ inmsg.msg[1].receiverId = "b"
    /\ emitted = <<>> /\ wire = <<>> /\ dbops = <<>>

\* C25: after DiscoveryHub::stop the receive task observes the cancellation,
\* returns and releases its socket, so that a later ensure_started binds
\* again; at no time do two receive tasks of the same hub exist
C25_OneReceiveTask ==
    Cardinality(LiveTasks) <= 1

\* C24: after stop has returned, each of the five background tasks (UDP
\* listener, TCP listener, discovery broadcaster, cleanup sweep, heartbeat)
\* eventually returns, whatever it was doing when the token was cancelled;
\* a call of start while the service runs spawns no task
C24_TasksExitAfterStop ==
    /\ [][Len(spawned') # Len(spawned) => ~running]_vars
    /\ \A t \in 1..MaxStarts, kind \in TaskKinds :
           (t \in cancelled)
               ~> (t \in DOMAIN spawned /\ spawned[t][kind].pc = "exited")

\* C40: while the peer fabric is not running (before the first start and
\* after stop) the peer table and the offline queue are empty: a discovery
\* datagram or a send request handled then adds no peer record and queues no
\* message, and stop leaves both empty
C40_IdleFabricStaysEmpty ==
    ~running => (peers = <<>> /\ message_queue = <<>>)

\* C31: every message received from a known peer (chat, ping, typing and the
\* others, not only discovery datagrams and pongs) refreshes the last_seen of
\* that peer, so that a peer that keeps sending is not flipped offline by the
\* cleanup sweep
C31_AnyMessageRefreshes ==
    [][inmsg'.n # inmsg.n
           => LET m == inmsg'.msg[1]
              IN  FindPeer(m.senderId) # {}
                      => \E id \in FindPeer(m.senderId) :
                             /\ id \in DOMAIN peers'
                             /\ peers'[id].lastSeen = pclock
                             /\ peers'[id].isOnline]_vars

\* C32: PUT /streams/{path} never overwrites an existing stream: with
\* If-None-Match: * it answers 412 when the path exists and 201 when it does
\* not; without the header a PUT on an existing path answers 409; in both
\* cases the existing stream keeps its mode, counters and created_at
C32_PutNeverOverwrites ==
    [][(sresp'.op = "put_stream" /\ (sresp' # sresp \/ streams' # streams))
           => \A path \in sresp'.body :
                  IF path \in DOMAIN streams
                  THEN /\ sresp'.status = IF sresp'.if_none_match = "*"
                                          THEN 412 ELSE 409
                       /\ streams' = streams
                  ELSE /\ sresp'.status = 201
                       /\ path \in DOMAIN streams'
                       /\ \A p \in DOMAIN streams : streams'[p] = streams[p]]_vars

\* C32 witness: a PUT without If-None-Match on an existing path was answered
\* 409 and the stream is still there
C32_Witness ==
    /\ sresp.op = "put_stream"
    /\ sresp.status = 409
    /\ sresp.if_none_match = None
    /\ \A path \in sresp.body : path \in DOMAIN streams

\* C33: DELETE /streams/{path} honours If-Match: when the header is present,
\* is not "*" and differs from the stored etag of the stream, the stream is
\* not deleted and the answer is 412 Precondition Failed; when the header is
\* absent, is "*" or equals the stored etag, an existing stream is deleted
C33_DeleteHonoursIfMatch ==
    [][(sresp'.op = "delete_stream" /\ (sresp' # sresp \/ streams' # streams))
           => \A path \in Paths :
                  path \in DOMAIN streams
                      => IF /\ sresp'.if_match # None
                            /\ sresp'.if_match # "*"
                            /\ sresp'.if_match # streams[path].etag
                         THEN /\ streams' = streams
                              /\ sresp'.status = 412
                         ELSE path \notin DOMAIN streams']_vars

\* C34: for every file size s offered with offer_file, total_chunks of the
\* transfer is the ceiling of s / 65536 and at least 1 (65537 gives 2, 0
\* gives 1)
C34_TotalChunksIsCeiling ==
    \A id \in DOMAIN file_transfers :
        file_transfers[id].direction = "send"
            => LET s    == file_transfers[id].fileSize
                   ceil == (s + ChunkSize - 1) \div ChunkSize
               IN  file_transfers[id].totalChunks = IF ceil > 1 THEN ceil ELSE 1

\* C35: of two PATCH requests for one upload that are handled at the same
\* time and carry the same Upload-Offset (and a chunk that is not empty), at
\* most one gets past the offset check of write_chunk
C35_OneOfTwoAccepted ==
    \A w1 \in Workers, w2 \in Workers :
        ~ /\ w1 # w2
          /\ req[w1].op = "patch" /\ req[w2].op = "patch"
          /\ req[w1].pc \notin {"idle", "check"}
          /\ req[w2].pc \notin {"idle", "check"}
          /\ req[w1].id = req[w2].id
          /\ req[w1].offset = req[w2].offset
          /\ req[w1].data # <<>> /\ req[w2].data # <<>>

\* C36: any two uploads that have both been finalized have each a final file
\* of their own: both final_path values name an existing file of complete/,
\* the two files are different and each holds the bytes of its upload
C36_FinalFilesKeptApart ==
    \A id1 \in DOMAIN uploads, id2 \in DOMAIN uploads :
        (id1 # id2 /\ uploads[id1].final_path # <<>> /\ uploads[id2].final_path # <<>>)
            => /\ uploads[id1].final_path[1] \in DOMAIN complete
               /\ uploads[id2].final_path[1] \in DOMAIN complete
               /\ uploads[id1].final_path[1] # uploads[id2].final_path[1]
               /\ complete[uploads[id1].final_path[1]]
                      = Bytes(IF id1 = "u1" THEN 1 ELSE 2, 1)

\* C37: after every completed operation of the store (append, delete_message,
\* cleanup_old_messages) the counter total_bytes is the sum of byte_size over
\* the stored messages, the value MessageStorage::new computes from the table
C37_TotalBytesIsSum == total_bytes = SumByteSize(messages)

\* C38: whenever get_range (limit at least 1) returns has_more = true, the
\* get_range that follows it from the returned end_offset returns at least
\* one message, also when messages have been deleted
C38_HasMoreMeansProgress ==
    \A start \in 0..MaxOffset, limit \in 1..MaxLimit,
       end \in {<<>>} \cup {<<n>> : n \in 0..(MaxOffset + 1)} :
        LET d == GetRange(start, end, limit)
        IN  d.has_more => Len(GetRange(d.end_offset, end, limit).messages) >= 1

\* C39: once is_complete of an upload is true, no step of a PATCH received
\* after that changes its offset, is_complete or final_path, and every such
\* PATCH ends with an error
C39_CompletionIsFinal ==
    [][\A id \in DOMAIN uploads :
           (uploads[id].is_complete /\ req[2].id = id /\ req'[2] # req[2])
               => /\ id \in DOMAIN uploads'
                  /\ uploads'[id].offset = uploads[id].offset
                  /\ uploads'[id].is_complete
                  /\ uploads'[id].final_path = uploads[id].final_path
                  /\ req'[2].pc = "idle" => tresp'.status >= 400]_vars

====
